---- MODULE Spec2Model ----
(***************************************************************************)
(* brew-updater: the Process Lock and the `check` command, the Concurrent  *)
(* Fetch Dispatcher, and the Reconciliation Engine, as state machines.     *)
(*                                                                         *)
(* The specifications that share the module:                               *)
(*   SpecCheck    concurrent `check` invocations around lock.Acquire and   *)
(*                Release (FairCheck: every invocation keeps running)      *)
(*   SpecEdit     `check` invocations and `set` / `watch` invocations on   *)
(*                config.json                                              *)
(*   SpecFetch    the goroutines of check.fetchLatest (FairFetch: with the *)
(*                Go scheduler's fairness)                                 *)
(*   SpecRun      one call of check.Run, phase by phase, on a new State    *)
(*   SpecStored   one call of check.Run on a State that earlier runs left  *)
(*   SpecRuns     two calls of check.Run in a row                          *)
(*   SpecWatch    two calls of check.Run with `watch` invocations between  *)
(*   SpecScheme   one call of check.Run with version schemes that change   *)
(*   SpecErrors   calls of appendError                                     *)
(*   SpecOutdated one call of isOutdated                                   *)
(*   SpecNormalize  normalizeVersion called on a string and on its result  *)
(***************************************************************************)
EXTENDS Integers, Sequences, FiniteSets, TLC

(***************************************************************************)
(* Bounds of the model.                                                    *)
(***************************************************************************)
\* concurrent `check` invocations
NProcs == 2
\* the clock runs 0..MaxTime; one tick is five minutes
MaxTime == 3
\* Acquire's loop counter saturates here
MaxAttempts == 3

\* lock.Acquire(lockPath, 10*time.Minute), in ticks of five minutes
LockTimeout == 2

Procs == 1..NProcs
\* a process id of a live process that is not one of ours
OtherPid == NProcs + 1
\* a process id no process has
GonePid == NProcs + 2

VARIABLES
    \* ---- the `check` command and the Process Lock ----
    lockFile,   \* the file at lockPath
    now,        \* time.Now(), in ticks
    pc,         \* each invocation's position in checkCmd / Acquire
    isst,       \* each invocation's locals of isStale: what it read, its verdict
    attempts,   \* each invocation's count of OpenFile calls in Acquire
    acqErr,     \* what Acquire returned: "none" (a Lock), "held", "io", or "" (not yet)
    hist,       \* each invocation's events so far, in order
    exitErr,    \* whether RunE returned a non-nil error
    cfgDisk,    \* whose SaveConfig wrote config.json last (0: nobody's yet)
    stDisk      \* whose SaveState wrote state.json last

checkVars == <<lockFile, now, pc, isst, attempts, acqErr, hist, exitErr, cfgDisk, stDisk>>

VARIABLES
    \* ---- config.json under `check` and `set` / `watch` ----
    cfgEdits,   \* the edits of `set` / `watch` that config.json on disk holds
    cfgLoaded,  \* the edits in the Config each `check` invocation loaded
    editsMade   \* the edits saved by `set` / `watch` so far: 1..editsMade

editVars == <<cfgEdits, cfgLoaded, editsMade>>

VARIABLES
    \* ---- check.fetchLatest ----
    fItems,         \* items: the due list it was called with
    ctxCancelled,   \* whether ctx is cancelled
    fNext,          \* the feeder's index into items
    feederPc,       \* the feeder goroutine's position
    jobsClosed,     \* close(jobs) has happened
    resultsClosed,  \* close(results) has happened
    wPc,            \* each worker's position
    wItem,          \* the item each worker took from jobs
    wRes,           \* the outcome of each worker's FetchLatest
    wgCount,        \* the WaitGroup's counter
    out,            \* the results collected so far
    mainPc          \* the caller's position in fetchLatest

fetchVars == <<fItems, ctxCancelled, fNext, feederPc, jobsClosed, resultsClosed,
               wPc, wItem, wRes, wgCount, out, mainPc>>

VARIABLES
    \* ---- check.Run ----
    rpc,        \* the position in Run
    cfg,        \* cfg: DefaultPolicy, Watchlist
    st,         \* st: the State being mutated
    opts,       \* opts: DryRun, ForceUpdate, NotifyOnly
    snap,       \* what brew.ListInstalled returns: formulae, casks (name -> version)
    api,        \* what the metadata API may answer: latests, schemes
    rNow,       \* now := time.Now(), in ticks
    installed,  \* installed: key -> version, of the items kept
    due,        \* due
    results,    \* results, as fetchLatest returned them
    outdated,   \* outdated
    updated,    \* updated
    toUpgrade,  \* toUpgradeFormula, toUpgradeCask
    res,        \* res: the Result
    rErr,       \* Run's error result
    brewLog,    \* the brew subprocesses run so far: op, names, ok, out
    notes,      \* the calls of Notifier.Notify so far
    cfgIn,      \* the Config Run was called with
    stIn,       \* the State Run was called with
    runNo       \* which run of the engine this is, counted from 1

runVars == <<rpc, cfg, st, opts, snap, api, rNow, installed, due, results, outdated,
             updated, toUpgrade, res, rErr, brewLog, notes, cfgIn, stIn, runNo>>

\* what no step of one run changes: the arguments of the call, the API
runArgs == <<cfgIn, stIn, runNo, api>>

VARIABLES
    \* ---- single calls of appendError, isOutdated and normalizeVersion ----
    ring,       \* the State whose LastErrors appendError is called on
    recorded,   \* every message recorded so far, oldest first
    appends,    \* the calls of appendError so far
    args,       \* the arguments of isOutdated: installed, latest, scheme, prevScheme
    verdict,    \* what isOutdated returned: <<>> before the call, <<b>> after
    text,       \* the string normalizeVersion is called on
    normal      \* what normalizeVersion returned, call after call

callVars == <<ring, recorded, appends, args, verdict, text, normal>>

vars == <<checkVars, editVars, fetchVars, runVars, callVars>>

notCheckCmd == <<fetchVars, runVars, callVars>>
notCheck == <<notCheckCmd, editVars>>
notFetch == <<checkVars, editVars, runVars, callVars>>
notRun == <<checkVars, editVars, fetchVars, callVars>>
notCall == <<checkVars, editVars, fetchVars, runVars>>

(***************************************************************************)
(* check.fetchLatest: four workers ranging over the unbuffered channel     *)
(* jobs, a feeder goroutine, and the caller ranging over the unbuffered    *)
(* channel results.  A send on an unbuffered channel and its receive are   *)
(* one step.                                                               *)
(***************************************************************************)
\* workers := 4
FetchWorkers == 4
\* the longest due list
MaxItems == 5

Workers == 1..FetchWorkers
ItemIds == {"a", "b"}
\* the due lists tried: a run of "a" followed by a run of "b", of every length
ItemLists ==
    UNION { { [i \in 1..n |-> IF i <= k THEN "a" ELSE "b"] : k \in 0..n } : n \in 0..MaxItems }

\* what client.FetchLatest returns: err == nil (a version or a 304) or an
\* error; with ctx cancelled the request fails
FetchOutcomes(cancelled) ==
    IF cancelled THEN {"err"} ELSE {"ok", "err"}

FetchIdle ==
    /\ fItems = <<>>
    /\ ctxCancelled = FALSE
    /\ fNext = 1
    /\ feederPc = "done"
    /\ jobsClosed = TRUE
    /\ resultsClosed = TRUE
    /\ wPc = [w \in Workers |-> "done"]
    /\ wItem = [w \in Workers |-> ""]
    /\ wRes = [w \in Workers |-> ""]
    /\ wgCount = 0
    /\ out = <<>>
    /\ mainPc = "returned"

\* jobs/results made, wg.Add(workers), the goroutines started
FetchInit ==
    /\ fItems \in ItemLists
    /\ ctxCancelled = FALSE
    /\ fNext = 1
    /\ feederPc = "send"
    /\ jobsClosed = FALSE
    /\ resultsClosed = FALSE
    /\ wPc = [w \in Workers |-> "recv"]
    /\ wItem = [w \in Workers |-> ""]
    /\ wRes = [w \in Workers |-> ""]
    /\ wgCount = FetchWorkers
    /\ out = <<>>
    /\ mainPc = "collect"

\* feeder: jobs <- item, received by a worker at `for item := range jobs`
FeederSend(w) ==
    /\ feederPc = "send"
    /\ fNext <= Len(fItems)
    /\ wPc[w] = "recv"
    /\ wItem' = [wItem EXCEPT ![w] = fItems[fNext]]
    /\ wPc' = [wPc EXCEPT ![w] = "fetch"]
    /\ fNext' = fNext + 1
    /\ UNCHANGED <<fItems, ctxCancelled, feederPc, jobsClosed, resultsClosed,
                   wRes, wgCount, out, mainPc>>
    /\ UNCHANGED notFetch

FeederClose_Forgotten ==
    /\ feederPc = "send"
    /\ fNext > Len(fItems)
    /\ feederPc' = "wait"
    /\ UNCHANGED <<fItems, ctxCancelled, fNext, jobsClosed, resultsClosed,
                   wPc, wItem, wRes, wgCount, out, mainPc>>
    /\ UNCHANGED notFetch

\* feeder: close(jobs)
FeederClose ==
    /\ feederPc = "send"
    /\ fNext > Len(fItems)
    /\ jobsClosed' = TRUE
    /\ feederPc' = "wait"
    /\ UNCHANGED <<fItems, ctxCancelled, fNext, resultsClosed,
                   wPc, wItem, wRes, wgCount, out, mainPc>>
    /\ UNCHANGED notFetch

\* feeder: wg.Wait()
FeederWait ==
    /\ feederPc = "wait"
    /\ wgCount = 0
    /\ feederPc' = "closeResults"
    /\ UNCHANGED <<fItems, ctxCancelled, fNext, jobsClosed, resultsClosed,
                   wPc, wItem, wRes, wgCount, out, mainPc>>
    /\ UNCHANGED notFetch

\* feeder: close(results), and the goroutine ends
FeederCloseResults ==
    /\ feederPc = "closeResults"
    /\ resultsClosed' = TRUE
    /\ feederPc' = "done"
    /\ UNCHANGED <<fItems, ctxCancelled, fNext, jobsClosed,
                   wPc, wItem, wRes, wgCount, out, mainPc>>
    /\ UNCHANGED notFetch

\* worker: client.FetchLatest(ctx, item, etag)
WorkerFetch(w) ==
    /\ wPc[w] = "fetch"
    /\ \E k \in FetchOutcomes(ctxCancelled) : wRes' = [wRes EXCEPT ![w] = k]
    /\ wPc' = [wPc EXCEPT ![w] = "send"]
    /\ UNCHANGED <<fItems, ctxCancelled, fNext, feederPc, jobsClosed,
                   resultsClosed, wItem, wgCount, out, mainPc>>
    /\ UNCHANGED notFetch

WorkerSend_SkipsErrors(w) ==
    /\ wPc[w] = "send"
    /\ mainPc = "collect"
    /\ out' = IF wRes[w] = "err" THEN out
              ELSE Append(out, [item |-> wItem[w], kind |-> wRes[w]])
    /\ wPc' = [wPc EXCEPT ![w] = "recv"]
    /\ wItem' = [wItem EXCEPT ![w] = ""]
    /\ wRes' = [wRes EXCEPT ![w] = ""]
    /\ UNCHANGED <<fItems, ctxCancelled, fNext, feederPc, jobsClosed,
                   resultsClosed, wgCount, mainPc>>
    /\ UNCHANGED notFetch

\* worker: results <- fetchResult{item: item, ...}, received by the caller at
\* `for r := range results { out = append(out, r) }`
WorkerSend(w) ==
    /\ wPc[w] = "send"
    /\ mainPc = "collect"
    /\ out' = Append(out, [item |-> wItem[w], kind |-> wRes[w]])
    /\ wPc' = [wPc EXCEPT ![w] = "recv"]
    /\ wItem' = [wItem EXCEPT ![w] = ""]
    /\ wRes' = [wRes EXCEPT ![w] = ""]
    /\ UNCHANGED <<fItems, ctxCancelled, fNext, feederPc, jobsClosed,
                   resultsClosed, wgCount, mainPc>>
    /\ UNCHANGED notFetch

\* worker: range jobs ends on the closed channel; defer wg.Done()
WorkerExit(w) ==
    /\ wPc[w] = "recv"
    /\ jobsClosed
    /\ wPc' = [wPc EXCEPT ![w] = "done"]
    /\ wgCount' = wgCount - 1
    /\ UNCHANGED <<fItems, ctxCancelled, fNext, feederPc, jobsClosed,
                   resultsClosed, wItem, wRes, out, mainPc>>
    /\ UNCHANGED notFetch

\* caller: range results ends on the closed channel; return out
MainReturn ==
    /\ mainPc = "collect"
    /\ resultsClosed
    /\ mainPc' = "returned"
    /\ UNCHANGED <<fItems, ctxCancelled, fNext, feederPc, jobsClosed,
                   resultsClosed, wPc, wItem, wRes, wgCount, out>>
    /\ UNCHANGED notFetch

\* the caller's context is cancelled
Cancel ==
    /\ ~ctxCancelled
    /\ mainPc = "collect"
    /\ ctxCancelled' = TRUE
    /\ UNCHANGED <<fItems, fNext, feederPc, jobsClosed, resultsClosed,
                   wPc, wItem, wRes, wgCount, out, mainPc>>
    /\ UNCHANGED notFetch

\* the steps of the goroutines
FetchSteps ==
    \/ \E w \in Workers : FeederSend(w)
    \/ FeederClose
    \/ FeederWait
    \/ FeederCloseResults
    \/ \E w \in Workers : WorkerFetch(w)
    \/ \E w \in Workers : WorkerSend(w)
    \/ \E w \in Workers : WorkerExit(w)
    \/ MainReturn

FetchNext == FetchSteps \/ Cancel

(***************************************************************************)
(* check.Run: the data.  A string that is only compared is a TLA+ string;  *)
(* a version string, which the code takes apart, is a sequence of          *)
(* characters.  A watch key "type:name" is the pair <<type, name>>, so the *)
(* bare name (the key of an item without type) is <<"", name>>.  A map is  *)
(* a function on the set of its keys.                                      *)
(***************************************************************************)
Has(m, k) == k \in DOMAIN m
Get(m, k, zero) == IF k \in DOMAIN m THEN m[k] ELSE zero
Put(m, k, v) == [x \in (DOMAIN m) \cup {k} |-> IF x = k THEN v ELSE m[x]]
Del(m, k) == [x \in (DOMAIN m) \ {k} |-> m[x]]
Restrict(m, keep) == [x \in (DOMAIN m) \cap keep |-> m[x]]
EmptyMap == <<>>

\* config.WatchKey
WatchKey(name, typ) == <<typ, name>>

\* api.URLFor / buildURL: the cask template, or the formula template
URLFor(item) ==
    IF item.Type = "cask" THEN <<"cask", item.Name>> ELSE <<"formula", item.Name>>

\* a nil *time.Time
NoTime == 0 - 1

\* Instants are counted in ticks, a whole number of which make a second.
TicksPerSecond == 2
Minute == 60 * TicksPerSecond

\* t.Format(time.RFC3339) and time.Parse(time.RFC3339, s): a stored time is a
\* string, which parses or not; the layout has no fraction of a second, so
\* the instant it parses to is t cut down to the whole second
FormatRFC3339(t) == [valid |-> TRUE, t |-> (t \div TicksPerSecond) * TicksPerSecond]
NotATime == [valid |-> FALSE, t |-> 0]

\* config.DefaultIntervalMin
DefaultIntervalMin == 5

\* config.DefaultState()
DefaultState ==
    [LastCheckAt |-> NoTime, LastUpdateAt |-> NoTime, LastVersions |-> EmptyMap,
     LastSchemes |-> EmptyMap, ETagCache |-> EmptyMap, LastErrors |-> <<>>,
     NextCheckAt |-> EmptyMap]

\* len(st.LastErrors) > 20
MaxErrors == 20

\* a ring that keeps the oldest messages
appendError_KeepsOldest(s, msg) ==
    LET e == Append(s.LastErrors, msg)
    IN [s EXCEPT !.LastErrors =
            IF Len(e) > MaxErrors THEN SubSeq(e, 1, MaxErrors) ELSE e]

\* appendError
appendError(s, msg) ==
    LET e == Append(s.LastErrors, msg)
    IN [s EXCEPT !.LastErrors =
            IF Len(e) > MaxErrors THEN SubSeq(e, Len(e) - MaxErrors + 1, Len(e)) ELSE e]

(***************************************************************************)
(* Version strings and the Version Comparator.                             *)
(***************************************************************************)
Digits == {"0", "1", "2", "3", "4", "5", "6", "7", "8", "9"}
DigitVal == [c \in Digits |->
    CASE c = "0" -> 0 [] c = "1" -> 1 [] c = "2" -> 2 [] c = "3" -> 3 [] c = "4" -> 4
      [] c = "5" -> 5 [] c = "6" -> 6 [] c = "7" -> 7 [] c = "8" -> 8 [] c = "9" -> 9]

RECURSIVE TrimLeft(_)
TrimLeft(v) == IF v # <<>> /\ Head(v) = " " THEN TrimLeft(Tail(v)) ELSE v
RECURSIVE TrimRight(_)
TrimRight(v) ==
    IF v # <<>> /\ v[Len(v)] = " " THEN TrimRight(SubSeq(v, 1, Len(v) - 1)) ELSE v
\* strings.TrimSpace
TrimSpace(v) == TrimRight(TrimLeft(v))

\* a normalization that leaves the commas
normalizeVersion_KeepsCommas(v) ==
    LET t == TrimSpace(v)
        u == IF t # <<>> /\ Head(t) = "v" THEN Tail(t) ELSE t
    IN [i \in DOMAIN u |-> IF u[i] = "_" THEN "." ELSE u[i]]

\* normalizeVersion: TrimSpace, TrimPrefix "v", "_" and "," to "."
normalizeVersion(v) ==
    LET t == TrimSpace(v)
        u == IF t # <<>> /\ Head(t) = "v" THEN Tail(t) ELSE t
    IN [i \in DOMAIN u |-> IF u[i] \in {"_", ","} THEN "." ELSE u[i]]

ToLower(c) ==
    CASE c = "L" -> "l" [] c = "A" -> "a" [] c = "T" -> "t" [] c = "E" -> "e"
      [] c = "S" -> "s" [] OTHER -> c

\* isLatest: strings.EqualFold(strings.TrimSpace(v), "latest")
isLatest(v) ==
    LET t == TrimSpace(v)
    IN [i \in DOMAIN t |-> ToLower(t[i])] = <<"l", "a", "t", "e", "s", "t">>

\* the "."-separated parts of v
RECURSIVE SplitDots(_)
SplitDots(v) ==
    IF \A i \in DOMAIN v : v[i] # "." THEN <<v>>
    ELSE LET k == CHOOSE i \in DOMAIN v : v[i] = "." /\ \A j \in 1..(i - 1) : v[j] # "."
         IN <<SubSeq(v, 1, k - 1)>> \o SplitDots(SubSeq(v, k + 1, Len(v)))

RECURSIVE ParseUint(_)
ParseUint(d) == IF d = <<>> THEN 0 ELSE 10 * ParseUint(SubSeq(d, 1, Len(d) - 1)) + DigitVal[d[Len(d)]]

IsNumber(d) == d # <<>> /\ \A i \in DOMAIN d : d[i] \in Digits

\* semver.NewVersion on major[.minor[.patch]], an optional leading "v": the
\* parsed triple, or ok = FALSE
NewVersion(v) ==
    LET u == IF v # <<>> /\ Head(v) = "v" THEN Tail(v) ELSE v
        ps == SplitDots(u)
        ok == Len(ps) \in 1..3 /\ \A i \in DOMAIN ps : IsNumber(ps[i])
    IN [ok |-> ok,
        n |-> IF ok THEN [i \in 1..3 |-> IF i <= Len(ps) THEN ParseUint(ps[i]) ELSE 0]
              ELSE <<0, 0, 0>>]

\* lv.GreaterThan(iv)
GreaterThan(l, i) ==
    \/ l[1] > i[1]
    \/ l[1] = i[1] /\ l[2] > i[2]
    \/ l[1] = i[1] /\ l[2] = i[2] /\ l[3] > i[3]

\* a comparison of the strings alone
isOutdated_StringsOnly(inst, latest, scheme, prevScheme) ==
    IF inst = <<>> \/ latest = <<>> THEN FALSE
    ELSE IF isLatest(inst) \/ isLatest(latest) THEN FALSE
    ELSE inst # latest

\* a comparison that looks at the schemes first
isOutdated_SchemeFirst(inst, latest, scheme, prevScheme) ==
    IF scheme > prevScheme /\ inst # latest THEN TRUE
    ELSE IF inst = <<>> \/ latest = <<>> THEN FALSE
    ELSE IF isLatest(inst) \/ isLatest(latest) THEN FALSE
    ELSE LET iv == NewVersion(normalizeVersion(inst))
             lv == NewVersion(normalizeVersion(latest))
         IN IF iv.ok /\ lv.ok THEN GreaterThan(lv.n, iv.n) ELSE inst # latest

\* a comparison whose scheme shortcut does not look at the strings
isOutdated_SchemeAlone(inst, latest, scheme, prevScheme) ==
    IF inst = <<>> \/ latest = <<>> THEN FALSE
    ELSE IF isLatest(inst) \/ isLatest(latest) THEN FALSE
    ELSE IF scheme > prevScheme THEN TRUE
    ELSE LET iv == NewVersion(normalizeVersion(inst))
             lv == NewVersion(normalizeVersion(latest))
         IN IF iv.ok /\ lv.ok THEN GreaterThan(lv.n, iv.n) ELSE inst # latest

\* isOutdated
isOutdated(inst, latest, scheme, prevScheme) ==
    IF inst = <<>> \/ latest = <<>> THEN FALSE
    ELSE IF isLatest(inst) \/ isLatest(latest) THEN FALSE
    ELSE IF scheme > prevScheme /\ inst # latest THEN TRUE
    ELSE LET iv == NewVersion(normalizeVersion(inst))
             lv == NewVersion(normalizeVersion(latest))
         IN IF iv.ok /\ lv.ok THEN GreaterThan(lv.n, iv.n) ELSE inst # latest

(***************************************************************************)
(* check.Run: the helpers.                                                 *)
(***************************************************************************)
Names == {"a", "b"}
NameRank == [n \in Names |-> IF n = "a" THEN 1 ELSE 2]

\* sort.Strings
RECURSIVE SortStrings(_)
SortStrings(s) ==
    IF s = <<>> THEN <<>>
    ELSE LET m == CHOOSE i \in DOMAIN s : \A j \in DOMAIN s : NameRank[s[i]] <= NameRank[s[j]]
         IN <<s[m]>> \o SortStrings(SubSeq(s, 1, m - 1) \o SubSeq(s, m + 1, Len(s)))

Range(s) == {s[i] : i \in DOMAIN s}

\* installedVersion
installedVersion(formulae, casks, item) ==
    CASE item.Type = "cask" ->
            [v |-> Get(casks, item.Name, <<>>), typ |-> "cask", ok |-> Has(casks, item.Name)]
      [] item.Type = "formula" ->
            [v |-> Get(formulae, item.Name, <<>>), typ |-> "formula", ok |-> Has(formulae, item.Name)]
      [] OTHER ->
            IF Has(formulae, item.Name)
            THEN [v |-> formulae[item.Name], typ |-> "formula", ok |-> TRUE]
            ELSE IF Has(casks, item.Name)
            THEN [v |-> casks[item.Name], typ |-> "cask", ok |-> TRUE]
            ELSE [v |-> <<>>, typ |-> "", ok |-> FALSE]

\* a copy that replaces what is filed under to
CopyForward_Overwrites(m, from, to) ==
    IF Has(m, from) THEN Put(m, to, m[from]) ELSE m

\* if v, ok := m[from]; ok { if _, exists := m[to]; !exists { m[to] = v } }
CopyForward(m, from, to) ==
    IF Has(m, from) /\ ~Has(m, to) THEN Put(m, to, m[from]) ELSE m

\* normalizeStateKeys: the loop over the watchlist wl
RECURSIVE normalizeStateKeysLoop(_, _)
normalizeStateKeysLoop(wl, s) ==
    IF wl = <<>> THEN s
    ELSE LET item == Head(wl)
             key == WatchKey(item.Name, item.Type)
             bare == WatchKey(item.Name, "")
         IN normalizeStateKeysLoop(Tail(wl),
                IF key = bare THEN s
                ELSE [s EXCEPT !.NextCheckAt = CopyForward(@, bare, key),
                               !.LastVersions = CopyForward(@, bare, key),
                               !.LastSchemes = CopyForward(@, bare, key)])

\* normalizeStateKeys
normalizeStateKeys(c, s) == normalizeStateKeysLoop(c.Watchlist, s)

\* Run's "remove missing" loop over the watchlist wl
RECURSIVE removeMissingLoop(_, _, _, _)
removeMissingLoop(formulae, casks, wl, acc) ==
    IF wl = <<>> THEN acc
    ELSE LET item == Head(wl)
             iv == installedVersion(formulae, casks, item)
             key == WatchKey(item.Name, item.Type)
             bare == WatchKey(item.Name, "")
             kept == [item EXCEPT !.Type = iv.typ]
         IN removeMissingLoop(formulae, casks, Tail(wl),
                IF ~iv.ok
                THEN [acc EXCEPT
                        !.removed = Append(@, item),
                        !.st = [@ EXCEPT !.NextCheckAt = Del(Del(@, key), bare),
                                         !.LastVersions = Del(Del(@, key), bare)]]
                ELSE [acc EXCEPT
                        !.installed = Put(@, WatchKey(kept.Name, kept.Type), iv.v),
                        !.filtered = Append(@, kept)])

\* Run's "remove missing": filtered, installed, res.Removed and st
removeMissing(formulae, casks, c, s) ==
    removeMissingLoop(formulae, casks, c.Watchlist,
        [filtered |-> <<>>, installed |-> EmptyMap, removed |-> <<>>, st |-> s])

\* a cleanup that leaves the scheme map as it is
cleanupStateKeys_KeepsSchemes(c, s) ==
    LET watched == {WatchKey(c.Watchlist[i].Name, c.Watchlist[i].Type) : i \in DOMAIN c.Watchlist}
                   \cup {WatchKey(c.Watchlist[i].Name, "") : i \in DOMAIN c.Watchlist}
    IN [s EXCEPT !.NextCheckAt = Restrict(@, watched),
                 !.LastVersions = Restrict(@, watched)]

\* cleanupStateKeys
cleanupStateKeys(c, s) ==
    LET watched == {WatchKey(c.Watchlist[i].Name, c.Watchlist[i].Type) : i \in DOMAIN c.Watchlist}
                   \cup {WatchKey(c.Watchlist[i].Name, "") : i \in DOMAIN c.Watchlist}
    IN [s EXCEPT !.NextCheckAt = Restrict(@, watched),
                 !.LastVersions = Restrict(@, watched),
                 !.LastSchemes = Restrict(@, watched)]

\* dueItems with an item due only once its next-check time has passed
dueItems_AfterOnly(c, s, t) ==
    LET Dflt(item) ==
            IF item.IntervalMin = 0 THEN [item EXCEPT !.IntervalMin = DefaultIntervalMin]
            ELSE item
        IsDue(item) ==
            LET key == WatchKey(item.Name, item.Type)
                bare == WatchKey(item.Name, "")
                ok == Has(s.NextCheckAt, key) \/ (key # bare /\ Has(s.NextCheckAt, bare))
                nextStr == IF Has(s.NextCheckAt, key) THEN s.NextCheckAt[key]
                           ELSE Get(s.NextCheckAt, bare, NotATime)
            IN \/ ~ok
               \/ ~nextStr.valid
               \/ t > nextStr.t
    IN SelectSeq([i \in DOMAIN c.Watchlist |-> Dflt(c.Watchlist[i])], IsDue)

\* dueItems
dueItems(c, s, t) ==
    LET Dflt(item) ==
            IF item.IntervalMin = 0 THEN [item EXCEPT !.IntervalMin = DefaultIntervalMin]
            ELSE item
        IsDue(item) ==
            LET key == WatchKey(item.Name, item.Type)
                bare == WatchKey(item.Name, "")
                ok == Has(s.NextCheckAt, key) \/ (key # bare /\ Has(s.NextCheckAt, bare))
                nextStr == IF Has(s.NextCheckAt, key) THEN s.NextCheckAt[key]
                           ELSE Get(s.NextCheckAt, bare, NotATime)
            IN \/ ~ok
               \/ ~nextStr.valid
               \/ ~(t < nextStr.t)
    IN SelectSeq([i \in DOMAIN c.Watchlist |-> Dflt(c.Watchlist[i])], IsDue)

\* namesFromItems
namesFromItems(items) == SortStrings([i \in DOMAIN items |-> items[i].Name])

\* a next-check time that leaves the run's instant out
NextCheck_FromZero(t, item) == FormatRFC3339(item.IntervalMin * Minute)

\* now.Add(time.Duration(r.item.IntervalMin) * time.Minute).Format(time.RFC3339)
NextCheck(t, item) == FormatRFC3339(t + item.IntervalMin * Minute)

\* a loop body that leaves the entries under the bare name where they are
reconcileFetched_KeepsBare(inst, t, acc, r) ==
    LET s == acc.st
        url == URLFor(r.item)
        key == WatchKey(r.item.Name, r.item.Type)
        bare == WatchKey(r.item.Name, "")
        prevScheme == Get(s.LastSchemes, key, 0)
        latest == IF r.notModified
                  THEN IF Has(s.LastVersions, key) THEN s.LastVersions[key]
                       ELSE Get(s.LastVersions, bare, r.latest)
                  ELSE r.latest
        scheme == IF r.notModified
                  THEN IF Has(s.LastSchemes, key) THEN s.LastSchemes[key]
                       ELSE Get(s.LastSchemes, bare, r.scheme)
                  ELSE r.scheme
        DropBare(m) == m
        s1 == IF r.notModified THEN s
              ELSE [s EXCEPT
                      !.ETagCache = IF r.etag # "" THEN Put(@, url, r.etag) ELSE @,
                      !.LastVersions = IF r.latest # <<>> THEN DropBare(Put(@, key, r.latest))
                                       ELSE @,
                      !.LastSchemes = DropBare(Put(@, key, r.scheme))]
        installedVersion_ == Get(inst, key, <<>>)
        s2 == [s1 EXCEPT !.NextCheckAt =
                  DropBare(Put(@, key, NextCheck(t, r.item)))]
    IN [st |-> s2,
        outdated |-> IF isOutdated(installedVersion_, latest, scheme, prevScheme)
                     THEN Append(acc.outdated,
                                 [Item |-> r.item, Installed |-> installedVersion_,
                                  Latest |-> latest])
                     ELSE acc.outdated]

\* the body of Run's loop over results, for a result without error
reconcileFetched(inst, t, acc, r) ==
    LET s == acc.st
        url == URLFor(r.item)
        key == WatchKey(r.item.Name, r.item.Type)
        bare == WatchKey(r.item.Name, "")
        prevScheme == Get(s.LastSchemes, key, 0)
        latest == IF r.notModified
                  THEN IF Has(s.LastVersions, key) THEN s.LastVersions[key]
                       ELSE Get(s.LastVersions, bare, r.latest)
                  ELSE r.latest
        scheme == IF r.notModified
                  THEN IF Has(s.LastSchemes, key) THEN s.LastSchemes[key]
                       ELSE Get(s.LastSchemes, bare, r.scheme)
                  ELSE r.scheme
        DropBare(m) == IF key # bare THEN Del(m, bare) ELSE m
        s1 == IF r.notModified THEN s
              ELSE [s EXCEPT
                      !.ETagCache = IF r.etag # "" THEN Put(@, url, r.etag) ELSE @,
                      !.LastVersions = IF r.latest # <<>> THEN DropBare(Put(@, key, r.latest))
                                       ELSE @,
                      !.LastSchemes = DropBare(Put(@, key, r.scheme))]
        installedVersion_ == Get(inst, key, <<>>)
        s2 == [s1 EXCEPT !.NextCheckAt =
                  DropBare(Put(@, key, NextCheck(t, r.item)))]
    IN [st |-> s2,
        outdated |-> IF isOutdated(installedVersion_, latest, scheme, prevScheme)
                     THEN Append(acc.outdated,
                                 [Item |-> r.item, Installed |-> installedVersion_,
                                  Latest |-> latest])
                     ELSE acc.outdated]

\* a loop body that advances the next-check time of an item whose fetch failed
reconcileResult_AdvancesOnError(inst, t, acc, r) ==
    IF r.err
    THEN [acc EXCEPT !.st =
            [appendError(@, [what |-> "fetch", name |-> r.item.Name])
                EXCEPT !.NextCheckAt =
                    Put(@, WatchKey(r.item.Name, r.item.Type), NextCheck(t, r.item))]]
    ELSE reconcileFetched(inst, t, acc, r)

\* the body of Run's loop over results: if r.err != nil { appendError; continue }
reconcileResult(inst, t, acc, r) ==
    IF r.err
    THEN [acc EXCEPT !.st = appendError(@, [what |-> "fetch", name |-> r.item.Name])]
    ELSE reconcileFetched(inst, t, acc, r)

EffectivePolicy(c, item) == IF item.Policy = "" THEN c.DefaultPolicy ELSE item.Policy

\* splitByType
splitByType(outd, c) ==
    LET IsCask(o) == EffectivePolicy(c, o.Item) = "auto" /\ o.Item.Type = "cask"
        IsFormula(o) == EffectivePolicy(c, o.Item) = "auto" /\ o.Item.Type # "cask"
        NamesOf(s) == [i \in DOMAIN s |-> s[i].Item.Name]
    IN [formula |-> SortStrings(NamesOf(SelectSeq(outd, IsFormula))),
        cask |-> SortStrings(NamesOf(SelectSeq(outd, IsCask)))]

\* filterOutdated
filterOutdated(items, formulas, casks) ==
    LET allowed == {WatchKey(n, "formula") : n \in Range(formulas)}
                   \cup {WatchKey(n, "cask") : n \in Range(casks)}
        Ok(o) == WatchKey(o.Item.Name, o.Item.Type) \in allowed
    IN SelectSeq(items, Ok)

\* notifyUpdates without its forceAll parameter taken into account
notifyUpdates_PolicyOnly(c, items, action, forceAll) ==
    LET Told(o) == EffectivePolicy(c, o.Item) = "notify" \/ action = "Updated"
        sel == SelectSeq(items, Told)
    IN [i \in DOMAIN sel |-> [kind |-> "update", action |-> action, item |-> sel[i].Item]]

\* notifyUpdates: the calls of n.Notify it makes
notifyUpdates(c, items, action, forceAll) ==
    LET Told(o) == forceAll \/ EffectivePolicy(c, o.Item) = "notify" \/ action = "Updated"
        sel == SelectSeq(items, Told)
    IN [i \in DOMAIN sel |-> [kind |-> "update", action |-> action, item |-> sel[i].Item]]

\* Run's loop over results
RECURSIVE reconcileLoop(_, _, _, _)
reconcileLoop(inst, t, acc, rs) ==
    IF rs = <<>> THEN acc
    ELSE reconcileLoop(inst, t, reconcileResult(inst, t, acc, Head(rs)), Tail(rs))

\* notifyFailure: the call of n.Notify it makes
notifyFailure(title) == <<[kind |-> "failure", action |-> title, item |-> <<>>]>>

(***************************************************************************)
(* The lock file: `pid|unix_timestamp`.  A file's content is the list of   *)
(* its "|"-separated parts, each of which parses as an integer or not.     *)
(***************************************************************************)
Num(n) == [num |-> TRUE, val |-> n]
Bad == [num |-> FALSE, val |-> 0]

\* fmt.Sprintf("%d|%d", os.Getpid(), time.Now().Unix())
FormatLock(pid, ts) == <<Num(pid), Num(ts)>>

\* a file just created by O_CREATE|O_EXCL is empty: strings.Split("", "|") is
\* the one part "", which is no integer
EmptyContent == <<Bad>>

NoFile == [exists |-> FALSE, owner |-> 0, parts |-> <<>>, rm |-> TRUE]

\* owner: the invocation whose OpenFile created it (0: left over from an earlier
\* run); rm: whether os.Remove of it succeeds for our invocations
File(o, ps, r) == [exists |-> TRUE, owner |-> o, parts |-> ps, rm |-> r]

LeftoverContents ==
    { FormatLock(GonePid, 0), FormatLock(OtherPid, 0), EmptyContent,
      <<Num(OtherPid), Bad>>, <<Num(OtherPid), Num(0), Num(0)>> }

InitFiles == {NoFile} \cup { File(0, ps, r) : ps \in LeftoverContents, r \in BOOLEAN }

NoSeen == [set |-> FALSE, parts |-> <<>>, alive |-> FALSE, age |-> 0, stale |-> FALSE]

pidAlive(pid) == (pid \in Procs /\ pc[pid] # "done") \/ pid = OtherPid

isStale_Geq(parts, alive, age) ==
    IF Len(parts) # 2 THEN TRUE
    ELSE IF ~parts[1].num THEN TRUE
    ELSE IF ~parts[2].num THEN TRUE
    ELSE IF ~alive THEN TRUE
    ELSE age >= LockTimeout

isStale_NoPidCheck(parts, alive, age) ==
    IF Len(parts) # 2 THEN TRUE
    ELSE IF ~parts[1].num THEN TRUE
    ELSE IF ~parts[2].num THEN TRUE
    ELSE age > LockTimeout

\* isStale, on what it read: the parts, pidAlive of the first, time.Since of the second
isStale(parts, alive, age) ==
    IF Len(parts) # 2 THEN TRUE
    ELSE IF ~parts[1].num THEN TRUE
    ELSE IF ~parts[2].num THEN TRUE
    ELSE IF ~alive THEN TRUE
    ELSE age > LockTimeout

Log(p, e) == hist' = [hist EXCEPT ![p] = Append(@, e)]

(***************************************************************************)
(* checkCmd, step by step.                                                 *)
(***************************************************************************)
\* cfg, st, path, _, err := loadConfigState(true)
LoadConfigState(p) ==
    /\ pc[p] = "load"
    /\ \E ok \in BOOLEAN :
        IF ok
        THEN /\ pc' = [pc EXCEPT ![p] = "open"]
             /\ Log(p, "load")
             /\ UNCHANGED exitErr
        ELSE /\ pc' = [pc EXCEPT ![p] = "done"]
             /\ exitErr' = [exitErr EXCEPT ![p] = TRUE]
             /\ UNCHANGED hist
    /\ cfgLoaded' = [cfgLoaded EXCEPT ![p] = cfgEdits]
    /\ UNCHANGED <<cfgEdits, editsMade>>
    /\ UNCHANGED <<lockFile, now, isst, attempts, acqErr, cfgDisk, stDisk>>
    /\ UNCHANGED notCheckCmd

\* Acquire: os.OpenFile(path, O_CREATE|O_EXCL|O_WRONLY)
AcquireOpen(p) ==
    /\ pc[p] = "open"
    /\ attempts' = [attempts EXCEPT ![p] = IF @ < MaxAttempts THEN @ + 1 ELSE @]
    /\ IF lockFile.exists
       THEN \* os.IsExist(err)
            /\ pc' = [pc EXCEPT ![p] = "isStale"]
            /\ UNCHANGED <<lockFile, acqErr>>
       ELSE \/ /\ lockFile' = File(p, EmptyContent, TRUE)
               /\ pc' = [pc EXCEPT ![p] = "write"]
               /\ UNCHANGED acqErr
            \/ \* any other error of OpenFile: return nil, err
               /\ pc' = [pc EXCEPT ![p] = "acqFail"]
               /\ acqErr' = [acqErr EXCEPT ![p] = "io"]
               /\ UNCHANGED lockFile
    /\ UNCHANGED <<now, isst, hist, exitErr, cfgDisk, stDisk>>
    /\ UNCHANGED notCheck

\* Acquire: f.WriteString(pid|now) on the handle it opened, return &Lock{}
AcquireWrite(p) ==
    /\ pc[p] = "write"
    /\ lockFile' = IF lockFile.exists /\ lockFile.owner = p
                   THEN [lockFile EXCEPT !.parts = FormatLock(p, now)]
                   ELSE lockFile
    /\ acqErr' = [acqErr EXCEPT ![p] = "none"]
    /\ pc' = [pc EXCEPT ![p] = "hasBrew"]
    /\ Log(p, "acquire")
    /\ UNCHANGED <<now, isst, attempts, exitErr, cfgDisk, stDisk>>
    /\ UNCHANGED notCheck

\* Acquire: stale, err := isStale(path, timeout)
AcquireIsStale(p) ==
    /\ pc[p] = "isStale"
    /\ IF ~lockFile.exists
       THEN \* os.ReadFile fails: return nil, err
            /\ pc' = [pc EXCEPT ![p] = "acqFail"]
            /\ acqErr' = [acqErr EXCEPT ![p] = "io"]
            /\ UNCHANGED isst
       ELSE LET parts == lockFile.parts
                wf == Len(parts) = 2 /\ parts[1].num /\ parts[2].num
                alive == IF wf THEN pidAlive(parts[1].val) ELSE FALSE
                age == IF wf THEN now - parts[2].val ELSE 0
                stale == isStale(parts, alive, age)
            IN /\ isst' = [isst EXCEPT ![p] = [set |-> TRUE, parts |-> parts,
                                                alive |-> alive, age |-> age,
                                                stale |-> stale]]
               /\ IF stale
                  THEN /\ pc' = [pc EXCEPT ![p] = "remove"]
                       /\ UNCHANGED acqErr
                  ELSE \* errors.New("lock already held")
                       /\ pc' = [pc EXCEPT ![p] = "acqFail"]
                       /\ acqErr' = [acqErr EXCEPT ![p] = "held"]
    /\ UNCHANGED <<lockFile, now, attempts, hist, exitErr, cfgDisk, stDisk>>
    /\ UNCHANGED notCheck

\* Acquire: _ = os.Remove(path); continue
AcquireRemove(p) ==
    /\ pc[p] = "remove"
    /\ lockFile' = IF lockFile.exists /\ lockFile.rm THEN NoFile ELSE lockFile
    /\ pc' = [pc EXCEPT ![p] = "open"]
    /\ UNCHANGED <<now, isst, attempts, acqErr, hist, exitErr, cfgDisk, stDisk>>
    /\ UNCHANGED notCheck

AcquireFailed_ReturnsErr(p) ==
    /\ pc[p] = "acqFail"
    /\ pc' = [pc EXCEPT ![p] = "done"]
    /\ exitErr' = [exitErr EXCEPT ![p] = TRUE]
    /\ UNCHANGED <<lockFile, now, isst, attempts, acqErr, hist, cfgDisk, stDisk>>
    /\ UNCHANGED notCheck

\* checkCmd: if err != nil { "skip: another check running"; return nil }
AcquireFailed(p) ==
    /\ pc[p] = "acqFail"
    /\ pc' = [pc EXCEPT ![p] = "done"]
    /\ UNCHANGED <<lockFile, now, isst, attempts, acqErr, hist, exitErr, cfgDisk, stDisk>>
    /\ UNCHANGED notCheck

HasRunningBrew_NoDefer(p) ==
    /\ pc[p] = "hasBrew"
    /\ \E running \in BOOLEAN :
        pc' = [pc EXCEPT ![p] = IF running THEN "done" ELSE "run"]
    /\ UNCHANGED <<lockFile, now, isst, attempts, acqErr, hist, exitErr, cfgDisk, stDisk>>
    /\ UNCHANGED notCheck

\* checkCmd: defer l.Release(); if running, _ := brew.HasRunningBrew(); running { return nil }
HasRunningBrew(p) ==
    /\ pc[p] = "hasBrew"
    /\ \E running \in BOOLEAN :
        pc' = [pc EXCEPT ![p] = IF running THEN "release" ELSE "run"]
    /\ UNCHANGED <<lockFile, now, isst, attempts, acqErr, hist, exitErr, cfgDisk, stDisk>>
    /\ UNCHANGED notCheck

\* checkCmd: res, cfg, st, err := check.Run(...); if err != nil { return err }
CheckRun(p) ==
    /\ pc[p] = "run"
    /\ Log(p, "run")
    /\ \E ok \in BOOLEAN :
        IF ok
        THEN /\ pc' = [pc EXCEPT ![p] = "saveCfg"]
             /\ UNCHANGED exitErr
        ELSE /\ pc' = [pc EXCEPT ![p] = "release"]
             /\ exitErr' = [exitErr EXCEPT ![p] = TRUE]
    /\ UNCHANGED <<lockFile, now, isst, attempts, acqErr, cfgDisk, stDisk>>
    /\ UNCHANGED notCheck

\* checkCmd: config.SaveConfig(path, cfg)
CheckSaveConfig(p) ==
    /\ pc[p] = "saveCfg"
    /\ \E ok \in BOOLEAN :
        IF ok
        THEN /\ pc' = [pc EXCEPT ![p] = "saveSt"]
             /\ cfgDisk' = p
             /\ cfgEdits' = cfgLoaded[p]
             /\ Log(p, "saveConfig")
             /\ UNCHANGED exitErr
        ELSE /\ pc' = [pc EXCEPT ![p] = "release"]
             /\ exitErr' = [exitErr EXCEPT ![p] = TRUE]
             /\ UNCHANGED <<cfgDisk, cfgEdits, hist>>
    /\ UNCHANGED <<cfgLoaded, editsMade>>
    /\ UNCHANGED <<lockFile, now, isst, attempts, acqErr, stDisk>>
    /\ UNCHANGED notCheckCmd

\* checkCmd: config.SaveState(statePath, st), then the report and return nil
CheckSaveState(p) ==
    /\ pc[p] = "saveSt"
    /\ \E ok \in BOOLEAN :
        IF ok
        THEN /\ stDisk' = p
             /\ Log(p, "saveState")
             /\ UNCHANGED exitErr
        ELSE /\ exitErr' = [exitErr EXCEPT ![p] = TRUE]
             /\ UNCHANGED <<stDisk, hist>>
    /\ pc' = [pc EXCEPT ![p] = "release"]
    /\ UNCHANGED <<lockFile, now, isst, attempts, acqErr, cfgDisk>>
    /\ UNCHANGED notCheck

\* the deferred l.Release(): os.Remove(l.path), its error dropped
Release(p) ==
    /\ pc[p] = "release"
    /\ lockFile' = IF lockFile.exists /\ lockFile.rm THEN NoFile ELSE lockFile
    /\ pc' = [pc EXCEPT ![p] = "done"]
    /\ Log(p, "release")
    /\ UNCHANGED <<now, isst, attempts, acqErr, exitErr, cfgDisk, stDisk>>
    /\ UNCHANGED notCheck

\* time passes
Tick ==
    /\ now < MaxTime
    /\ now' = now + 1
    /\ UNCHANGED <<lockFile, pc, isst, attempts, acqErr, hist, exitErr, cfgDisk, stDisk>>
    /\ UNCHANGED notCheck

\* the `set` / `watch` invocations tried
MaxEdits == 2

\* setCmd, watchCmd: loadConfigState, the change of the watchlist, SaveConfig;
\* no lock is taken
SetCmd ==
    /\ editsMade < MaxEdits
    /\ editsMade' = editsMade + 1
    /\ cfgEdits' = cfgEdits \cup {editsMade + 1}
    /\ UNCHANGED cfgLoaded
    /\ UNCHANGED checkVars
    /\ UNCHANGED notCheckCmd

(***************************************************************************)
(* check.Run, phase by phase.  What the collaborators answer (brew, the    *)
(* metadata API through fetchLatest) is chosen at each call.               *)
(***************************************************************************)
\* the sub-lists of s: what brew outdated may report of the names it was given
RECURSIVE SubLists(_)
SubLists(s) ==
    IF s = <<>> THEN {<<>>}
    ELSE LET r == SubLists(Tail(s)) IN r \cup {<<Head(s)>> \o x : x \in r}

\* a call of a brew operation on names: whether it returned without error, and
\* the names it reported
Brew(op, names, ok, reported) ==
    [op |-> op, names |-> names, ok |-> ok, out |-> reported]

\* a return that leaves last_check_at as it was
Stamp_Skipped(s, t) == s

\* st.LastCheckAt = ptrTime(now)
Stamp(s, t) == [s EXCEPT !.LastCheckAt = t]

\* a failed brew update that leaves last_check_at as it was
UpdateFailed_NoStamp(s, t) == appendError(s, [what |-> "brew update failed", name |-> ""])

\* appendError, notifyFailure, st.LastCheckAt = ptrTime(now): a failed brew update
UpdateFailed(s, t) == Stamp(appendError(s, [what |-> "brew update failed", name |-> ""]), t)

\* what client.FetchLatest answers for item: an error, a 304 to a conditional
\* request (with the etag sent), or a version with its scheme and ETag; a cask
\* has no version scheme
Responses(s, item, latests, schemes, etags) ==
    {[item |-> item, latest |-> <<>>, scheme |-> 0, etag |-> "", notModified |-> FALSE,
      err |-> TRUE]}
    \cup (IF Get(s.ETagCache, URLFor(item), "") # ""
          THEN {[item |-> item, latest |-> <<>>, scheme |-> 0,
                 etag |-> s.ETagCache[URLFor(item)], notModified |-> TRUE, err |-> FALSE]}
          ELSE {})
    \cup {[item |-> item, latest |-> l, scheme |-> sc, etag |-> e, notModified |-> FALSE,
           err |-> FALSE] : l \in latests,
                            sc \in IF item.Type = "cask" THEN {0} ELSE schemes,
                            e \in etags}

Perms(n) == {f \in [1..n -> 1..n] : \A i, j \in 1..n : f[i] = f[j] => i = j}

\* what fetchLatest may return for the due list d: one result per item of d, in
\* any order
FetchResults(s, d, latests, schemes, etags) ==
    {rs \in [1..Len(d) -> UNION {Responses(s, d[i], latests, schemes, etags) : i \in DOMAIN d}] :
        \E f \in Perms(Len(d)) : \A i \in DOMAIN d : rs[i].item = d[f[i]]}

V10 == <<"1", ".", "0">>
V11 == <<"1", ".", "1">>

\* the answers of the metadata API tried
RunLatests == {V10, V11}
RunSchemes == {0}
RunETags == {"e1"}
RunApi == [latests |-> RunLatests, schemes |-> RunSchemes, etags |-> RunETags]

\* Run: brew.ListInstalled, normalizeStateKeys, remove missing, cleanupStateKeys,
\* dueItems, and the return when nothing is due
RunListInstalled ==
    /\ rpc = "start"
    /\ \E ok \in BOOLEAN :
        /\ brewLog' = Append(brewLog, Brew("list", <<>>, ok, <<>>))
        /\ IF ~ok
           THEN /\ rErr' = TRUE
                /\ rpc' = "returned"
                /\ UNCHANGED <<cfg, st, installed, due, res>>
           ELSE LET s0 == normalizeStateKeys(cfg, st)
                    rm == removeMissing(snap.formulae, snap.casks, cfg, s0)
                    c1 == [cfg EXCEPT !.Watchlist = rm.filtered]
                    s1 == cleanupStateKeys(c1, rm.st)
                    d == dueItems(c1, s1, rNow)
                IN /\ cfg' = c1
                   /\ installed' = rm.installed
                   /\ due' = d
                   /\ res' = [res EXCEPT !.Checked = Len(d),
                                         !.CheckedNames = namesFromItems(d),
                                         !.Removed = rm.removed]
                   /\ st' = IF d = <<>> THEN Stamp(s1, rNow) ELSE s1
                   /\ rpc' = IF d = <<>> THEN "returned" ELSE "fetch"
                   /\ UNCHANGED rErr
    /\ UNCHANGED <<opts, snap, rNow, results, outdated, updated, toUpgrade, notes>>
    /\ UNCHANGED <<runArgs, notRun>>

\* a fetch whose workers store the freshness tokens they receive
RunFetch_StoresETags ==
    /\ rpc = "fetch"
    /\ \E rs \in FetchResults(st, due, api.latests, api.schemes, api.etags) :
          LET got == {k \in DOMAIN rs : rs[k].etag # ""}
              urls == {URLFor(rs[k].item) : k \in got}
              First(u) == CHOOSE k \in got :
                              /\ URLFor(rs[k].item) = u
                              /\ \A j \in got : URLFor(rs[j].item) = u => k <= j
          IN /\ results' = rs
             /\ st' = [st EXCEPT !.ETagCache =
                        [u \in DOMAIN @ \cup urls |->
                            IF u \in urls THEN rs[First(u)].etag ELSE @[u]]]
    /\ rpc' = "reconcile"
    /\ UNCHANGED <<cfg, opts, snap, rNow, installed, due, outdated, updated,
                   toUpgrade, res, rErr, brewLog, notes>>
    /\ UNCHANGED <<runArgs, notRun>>

\* Run: results := fetchLatest(ctx, client, due, &st)
RunFetch ==
    /\ rpc = "fetch"
    /\ results' \in FetchResults(st, due, api.latests, api.schemes, api.etags)
    /\ rpc' = "reconcile"
    /\ UNCHANGED <<cfg, st, opts, snap, rNow, installed, due, outdated, updated,
                   toUpgrade, res, rErr, brewLog, notes>>
    /\ UNCHANGED <<runArgs, notRun>>

\* Run: for _, r := range results { ... }; res.Outdated = outdated
RunReconcile ==
    /\ rpc = "reconcile"
    /\ LET acc == reconcileLoop(installed, rNow, [st |-> st, outdated |-> <<>>], results)
       IN /\ st' = acc.st
          /\ outdated' = acc.outdated
          /\ res' = [res EXCEPT !.Outdated = acc.outdated]
    /\ rpc' = "forceUpdate"
    /\ UNCHANGED <<cfg, opts, snap, rNow, installed, due, results, updated,
                   toUpgrade, rErr, brewLog, notes>>
    /\ UNCHANGED <<runArgs, notRun>>

\* Run: if opts.ForceUpdate && !opts.DryRun && !opts.NotifyOnly { brew.Update }
RunForceUpdate ==
    /\ rpc = "forceUpdate"
    /\ IF opts.ForceUpdate /\ ~opts.DryRun /\ ~opts.NotifyOnly
       THEN /\ \E ok \in BOOLEAN :
                /\ brewLog' = Append(brewLog, Brew("update", <<>>, ok, <<>>))
                /\ IF ok
                   THEN /\ updated' = TRUE
                        /\ rpc' = "gate"
                        /\ UNCHANGED <<st, notes>>
                   ELSE /\ st' = UpdateFailed(st, rNow)
                        /\ notes' = notes \o notifyFailure("brew update failed")
                        /\ rpc' = "returned"
                        /\ UNCHANGED updated
       ELSE /\ rpc' = "gate"
            /\ UNCHANGED <<st, updated, brewLog, notes>>
    /\ UNCHANGED <<cfg, opts, snap, rNow, installed, due, results, outdated,
                   toUpgrade, res, rErr>>
    /\ UNCHANGED <<runArgs, notRun>>

\* Run: the returns on an empty outdated set and on dry-run / notify-only, and
\* the brew.Update that was not yet made
RunGate ==
    /\ rpc = "gate"
    /\ IF outdated = <<>>
       THEN /\ st' = Stamp(st, rNow)
            /\ rpc' = "returned"
            /\ UNCHANGED <<brewLog, notes>>
       ELSE IF opts.DryRun \/ opts.NotifyOnly
       THEN /\ notes' = notes \o notifyUpdates(cfg, outdated, "Update available", TRUE)
            /\ st' = Stamp(st, rNow)
            /\ rpc' = "returned"
            /\ UNCHANGED brewLog
       ELSE IF ~updated
       THEN /\ \E ok \in BOOLEAN :
                /\ brewLog' = Append(brewLog, Brew("update", <<>>, ok, <<>>))
                /\ IF ok
                   THEN /\ rpc' = "split"
                        /\ UNCHANGED <<st, notes>>
                   ELSE /\ st' = UpdateFailed(st, rNow)
                        /\ notes' = notes \o notifyFailure("brew update failed")
                        /\ rpc' = "returned"
       ELSE /\ rpc' = "split"
            /\ UNCHANGED <<st, brewLog, notes>>
    /\ UNCHANGED <<cfg, opts, snap, rNow, installed, due, results, outdated, updated,
                   toUpgrade, res, rErr>>
    /\ UNCHANGED <<runArgs, notRun>>

\* what brew.OutdatedFormula / OutdatedCask answers for names: not called on an
\* empty list; else an error, or the names among them brew reports outdated
OutdatedAnswers(names) ==
    IF names = <<>> THEN {[called |-> FALSE, err |-> FALSE, names |-> <<>>]}
    ELSE {[called |-> TRUE, err |-> TRUE, names |-> <<>>]}
         \cup {[called |-> TRUE, err |-> FALSE, names |-> x] : x \in SubLists(names)}

\* a re-verification that keeps the partition whatever brew reports
Reverified_Ignored(partition, answer) == partition

\* if names, err := brew.OutdatedFormula(toUpgradeFormula); err == nil {
\* toUpgradeFormula = names }: the partition after the re-verification
Reverified(partition, answer) ==
    IF answer.called /\ ~answer.err THEN answer.names ELSE partition

\* Run: splitByType, the two outdated queries, the return when nothing is left,
\* res.Outdated = filterOutdated(...)
RunSplit ==
    /\ rpc = "split"
    /\ LET sp == splitByType(outdated, cfg)
       IN \E fa \in OutdatedAnswers(sp.formula), ca \in OutdatedAnswers(sp.cask) :
            LET toF == Reverified(sp.formula, fa)
                toC == Reverified(sp.cask, ca)
                s1 == IF fa.err
                      THEN appendError(st, [what |-> "brew outdated formula failed", name |-> ""])
                      ELSE st
                s2 == IF ca.err
                      THEN appendError(s1, [what |-> "brew outdated cask failed", name |-> ""])
                      ELSE s1
            IN /\ brewLog' = brewLog
                     \o (IF fa.called
                         THEN <<Brew("outdatedFormula", sp.formula, ~fa.err, fa.names)>>
                         ELSE <<>>)
                     \o (IF ca.called
                         THEN <<Brew("outdatedCask", sp.cask, ~ca.err, ca.names)>>
                         ELSE <<>>)
               /\ toUpgrade' = [formula |-> toF, cask |-> toC]
               /\ IF toF = <<>> /\ toC = <<>>
                  THEN /\ st' = Stamp(s2, rNow)
                       /\ rpc' = "returned"
                       /\ UNCHANGED res
                  ELSE /\ st' = s2
                       /\ res' = [res EXCEPT !.Outdated = filterOutdated(outdated, toF, toC)]
                       /\ rpc' = "upgrade"
    /\ UNCHANGED <<cfg, opts, snap, rNow, installed, due, results, outdated, updated,
                   rErr, notes>>
    /\ UNCHANGED <<runArgs, notRun>>

\* upgrades in which a failed formula upgrade ends the upgrading
UpgradeCalls_FormulaFailureStops(tu, okF, okC) ==
    (IF tu.formula # <<>> THEN <<Brew("upgradeFormula", tu.formula, okF, <<>>)>> ELSE <<>>)
    \o (IF tu.cask # <<>> /\ okF THEN <<Brew("upgradeCask", tu.cask, okC, <<>>)>> ELSE <<>>)

\* brew.UpgradeFormula(toUpgradeFormula), then brew.UpgradeCask(toUpgradeCask):
\* the brew calls they make, none on an empty list
UpgradeCalls(tu, okF, okC) ==
    (IF tu.formula # <<>> THEN <<Brew("upgradeFormula", tu.formula, okF, <<>>)>> ELSE <<>>)
    \o (IF tu.cask # <<>> THEN <<Brew("upgradeCask", tu.cask, okC, <<>>)>> ELSE <<>>)

\* Run: brew.UpgradeFormula, brew.UpgradeCask (each a no-op on an empty list),
\* the stamps at two later time.Now(), notifyUpdates(cfg, outdated, "Updated", false)
RunUpgrade ==
    /\ rpc = "upgrade"
    /\ \E okF \in (IF toUpgrade.formula = <<>> THEN {TRUE} ELSE BOOLEAN),
          okC \in (IF toUpgrade.cask = <<>> THEN {TRUE} ELSE BOOLEAN),
          later \in {rNow, rNow + 1}, latest \in {rNow, rNow + 1} :
        /\ later <= latest
        /\ LET s1 == IF okF THEN st
                     ELSE appendError(st, [what |-> "formula upgrade failed", name |-> ""])
               s2 == IF okC THEN s1
                     ELSE appendError(s1, [what |-> "cask upgrade failed", name |-> ""])
           IN /\ brewLog' = brewLog \o UpgradeCalls(toUpgrade, okF, okC)
              /\ st' = [s2 EXCEPT !.LastUpdateAt = later, !.LastCheckAt = latest]
              /\ notes' = notes
                    \o (IF okF THEN <<>> ELSE notifyFailure("formula upgrade failed"))
                    \o (IF okC THEN <<>> ELSE notifyFailure("cask upgrade failed"))
                    \o notifyUpdates(cfg, outdated, "Updated", FALSE)
    /\ rpc' = "returned"
    /\ UNCHANGED <<cfg, opts, snap, rNow, installed, due, results, outdated, updated,
                   toUpgrade, res, rErr>>
    /\ UNCHANGED <<runArgs, notRun>>

RunNext ==
    \/ RunListInstalled
    \/ RunFetch
    \/ RunReconcile
    \/ RunForceUpdate
    \/ RunGate
    \/ RunSplit
    \/ RunUpgrade

(***************************************************************************)
(* The inputs of Run tried: a watchlist as config.LoadConfig returns it    *)
(* (no two items with the same key, every interval positive), the          *)
(* installed packages, the options, the State.                             *)
(***************************************************************************)
\* the longest watchlist
MaxWatch == 2

Types == {"", "formula", "cask"}
Policies == {"", "auto", "notify"}

WatchItems == [Name : Names, Type : Types, Policy : Policies, IntervalMin : {1}]

Watchlists ==
    {wl \in UNION {[1..n -> WatchItems] : n \in 0..MaxWatch} :
        \A i, j \in DOMAIN wl :
            WatchKey(wl[i].Name, wl[i].Type) = WatchKey(wl[j].Name, wl[j].Type) => i = j}

\* everything installed as formula and as cask, or "a" a formula and "b" a cask
RunSnaps ==
    {[formulae |-> [n \in Names |-> V10], casks |-> [n \in Names |-> V10]],
     [formulae |-> [n \in {"a"} |-> V10], casks |-> [n \in {"b"} |-> V10]]}

EmptyResult == [Checked |-> 0, CheckedNames |-> <<>>, Outdated |-> <<>>,
                Removed |-> <<>>, Errors |-> <<>>]

RunInit ==
    /\ rpc = "start"
    /\ cfg \in [DefaultPolicy : {"auto", "notify"}, Watchlist : Watchlists]
    /\ st = DefaultState
    /\ opts \in [DryRun : BOOLEAN, ForceUpdate : BOOLEAN, NotifyOnly : BOOLEAN]
    /\ snap \in RunSnaps
    /\ rNow = 0
    /\ installed = EmptyMap
    /\ due = <<>>
    /\ results = <<>>
    /\ outdated = <<>>
    /\ updated = FALSE
    /\ toUpgrade = [formula |-> <<>>, cask |-> <<>>]
    /\ res = EmptyResult
    /\ rErr = FALSE
    /\ brewLog = <<>>
    /\ notes = <<>>
    /\ cfgIn = cfg
    /\ stIn = st
    /\ runNo = 1
    /\ api = RunApi

(***************************************************************************)
(* Runs that start from a State left by earlier runs (or by an earlier     *)
(* version of the program, which filed entries under the bare name).       *)
(***************************************************************************)
Merge(m1, m2) ==
    [k \in (DOMAIN m1) \cup (DOMAIN m2) |-> IF k \in DOMAIN m1 THEN m1[k] ELSE m2[k]]

\* the instants of the runs: on a whole second, and a tick after it
StoredNows == {Minute, Minute + 1}

\* the stored next-check times: an empty or unparsable string, a time before
\* the run, the second of the run, a second after it
Nexts == {NotATime, FormatRFC3339(0), FormatRFC3339(Minute),
          FormatRFC3339(Minute + TicksPerSecond)}

\* the entries a State holds for the package name: under the bare name (with
\* version 1.0, scheme 0) if bare, under the key of kind comp (with version
\* 1.1, scheme 1) if comp is a kind; the next-check time is next, but that of
\* the bare entry is in the past where both entries exist
StoredEntries(name, bare, comp, next) ==
    LET keys == (IF bare THEN {WatchKey(name, "")} ELSE {})
                \cup (IF comp # "" THEN {WatchKey(name, comp)} ELSE {})
        IsBare(k) == k = WatchKey(name, "")
        url == IF comp = "cask" THEN <<"cask", name>> ELSE <<"formula", name>>
    IN [NextCheckAt |-> [k \in keys |-> IF IsBare(k) /\ comp # "" THEN FormatRFC3339(0)
                                        ELSE next],
        LastVersions |-> [k \in keys |-> IF IsBare(k) THEN V10 ELSE V11],
        LastSchemes |-> [k \in keys |-> IF IsBare(k) THEN 0 ELSE 1],
        ETagCache |-> [u \in (IF keys = {} THEN {} ELSE {url}) |-> "e0"]]

NoEntries(name) == StoredEntries(name, FALSE, "", NotATime)

\* the entries tried for "a": every combination; for "b": none, a bare entry
\* not yet due, an entry under formula:b that is due
EntriesOfA ==
    {NoEntries("a")}
    \cup {StoredEntries("a", bare, comp, next) :
            bare \in BOOLEAN, comp \in Types, next \in Nexts}
EntriesOfB ==
    {NoEntries("b"),
     StoredEntries("b", TRUE, "", FormatRFC3339(Minute + TicksPerSecond)),
     StoredEntries("b", FALSE, "formula", FormatRFC3339(0))}

StoredStates ==
    {[DefaultState EXCEPT !.NextCheckAt = Merge(ea.NextCheckAt, eb.NextCheckAt),
                          !.LastVersions = Merge(ea.LastVersions, eb.LastVersions),
                          !.LastSchemes = Merge(ea.LastSchemes, eb.LastSchemes),
                          !.ETagCache = Merge(ea.ETagCache, eb.ETagCache)] :
        ea \in EntriesOfA, eb \in EntriesOfB}

\* the watchlists whose items leave the policy to the default
StoredWatchlists == {wl \in Watchlists : \A i \in DOMAIN wl : wl[i].Policy = ""}

\* the snapshots of RunSnaps, and one in which "a" is not installed at all
StoredSnaps ==
    RunSnaps \cup {[formulae |-> EmptyMap, casks |-> [n \in {"b"} |-> V10]]}

StoredInit ==
    /\ rpc = "start"
    /\ cfg \in [DefaultPolicy : {"auto"}, Watchlist : StoredWatchlists]
    /\ st \in StoredStates
    /\ opts = [DryRun |-> FALSE, ForceUpdate |-> FALSE, NotifyOnly |-> FALSE]
    /\ snap \in StoredSnaps
    /\ rNow \in StoredNows
    /\ installed = EmptyMap
    /\ due = <<>>
    /\ results = <<>>
    /\ outdated = <<>>
    /\ updated = FALSE
    /\ toUpgrade = [formula |-> <<>>, cask |-> <<>>]
    /\ res = EmptyResult
    /\ rErr = FALSE
    /\ brewLog = <<>>
    /\ notes = <<>>
    /\ cfgIn = cfg
    /\ stIn = st
    /\ runNo = 1
    /\ api = RunApi

(***************************************************************************)
(* One run after another: checkCmd saves the Config and State a run        *)
(* returned, and the next invocation loads them (NormalizeConfig on the    *)
(* way) and runs at a later instant.                                       *)
(***************************************************************************)
\* the runs in a row
MaxRuns == 2

\* config.NormalizeConfig's loop: an item whose key was seen takes the place
\* of the one seen
RECURSIVE Dedupe(_, _)
Dedupe(wl, deduped) ==
    IF wl = <<>> THEN deduped
    ELSE LET item == Head(wl)
             key == WatchKey(item.Name, item.Type)
             Same(i) == WatchKey(deduped[i].Name, deduped[i].Type) = key
         IN Dedupe(Tail(wl),
                IF \E i \in DOMAIN deduped : Same(i)
                THEN [i \in DOMAIN deduped |-> IF Same(i) THEN item ELSE deduped[i]]
                ELSE Append(deduped, item))

\* config.NormalizeConfig, of a Config whose policy and intervals are set
NormalizeConfig(c) == [c EXCEPT !.Watchlist = Dedupe(c.Watchlist, <<>>)]

\* how much later the next run may be: a tick, a tick less than a minute, a
\* minute
Laters == {1, Minute - 1, Minute}

\* the next check invocation: loadConfigState of what the last one saved, and
\* check.Run on it
RunAgain ==
    /\ rpc = "returned"
    /\ ~rErr
    /\ runNo < MaxRuns
    /\ rpc' = "start"
    /\ runNo' = runNo + 1
    /\ cfg' = NormalizeConfig(cfg)
    /\ cfgIn' = cfg'
    /\ stIn' = st
    /\ \E d \in Laters : rNow' = rNow + d
    /\ installed' = EmptyMap
    /\ due' = <<>>
    /\ results' = <<>>
    /\ outdated' = <<>>
    /\ updated' = FALSE
    /\ toUpgrade' = [formula |-> <<>>, cask |-> <<>>]
    /\ res' = EmptyResult
    /\ brewLog' = <<>>
    /\ notes' = <<>>
    /\ UNCHANGED <<st, opts, snap, api, rErr>>
    /\ UNCHANGED notRun

RunsNext == RunNext \/ RunAgain

\* the watchlists of formulae, typed or not
RunsWatchlists ==
    {wl \in StoredWatchlists : \A i \in DOMAIN wl : wl[i].Type # "cask"}

RunsInit ==
    /\ rpc = "start"
    /\ cfg \in [DefaultPolicy : {"auto"}, Watchlist : RunsWatchlists]
    /\ st = DefaultState
    /\ opts = [DryRun |-> FALSE, ForceUpdate |-> FALSE, NotifyOnly |-> FALSE]
    /\ snap = [formulae |-> [n \in Names |-> V10], casks |-> [n \in Names |-> V10]]
    /\ rNow \in StoredNows
    /\ installed = EmptyMap
    /\ due = <<>>
    /\ results = <<>>
    /\ outdated = <<>>
    /\ updated = FALSE
    /\ toUpgrade = [formula |-> <<>>, cask |-> <<>>]
    /\ res = EmptyResult
    /\ rErr = FALSE
    /\ brewLog = <<>>
    /\ notes = <<>>
    /\ cfgIn = cfg
    /\ stIn = st
    /\ runNo = 1
    /\ api = RunApi

(***************************************************************************)
(* Runs with `watch` invocations between them: the watchlist is edited     *)
(* and config.json and state.json are saved again before the next run.     *)
(***************************************************************************)
\* the installed packages as `watch` lists them: by name, the formula before
\* the cask
RECURSIVE InstalledItems(_, _)
InstalledItems(sn, names) ==
    IF names = <<>> THEN <<>>
    ELSE LET n == Head(names)
         IN (IF n \in DOMAIN sn.formulae THEN <<[Name |-> n, Type |-> "formula"]>> ELSE <<>>)
            \o (IF n \in DOMAIN sn.casks THEN <<[Name |-> n, Type |-> "cask"]>> ELSE <<>>)
            \o InstalledItems(sn, Tail(names))

\* watchCmd with --interval-min 1 and every kind: the selection among the
\* installed packages becomes the watchlist, an item that was watched keeps
\* its policy and interval; the next-check times and versions of what is no
\* longer watched are deleted; SaveConfig, SaveState
WatchCmd ==
    /\ rpc = "returned"
    /\ ~rErr
    /\ runNo < MaxRuns
    /\ LET items == InstalledItems(snap, <<"a", "b">>)
           Existing(it) == {i \in DOMAIN cfg.Watchlist :
                              WatchKey(cfg.Watchlist[i].Name, cfg.Watchlist[i].Type)
                                = WatchKey(it.Name, it.Type)}
           \* existing[key] = w: the last item of the key
           Selected(it) ==
               IF Existing(it) # {}
               THEN LET w == cfg.Watchlist[CHOOSE i \in Existing(it) :
                                               \A j \in Existing(it) : j <= i]
                    IN [Name |-> it.Name, Type |-> it.Type, Policy |-> w.Policy,
                        IntervalMin |-> w.IntervalMin]
               ELSE [Name |-> it.Name, Type |-> it.Type, Policy |-> cfg.DefaultPolicy,
                     IntervalMin |-> 1]
       IN /\ items # <<>>
          /\ \E sel \in SubLists(items) :
                LET wl == [i \in DOMAIN sel |-> Selected(sel[i])]
                    watched == {WatchKey(wl[i].Name, wl[i].Type) : i \in DOMAIN wl}
                               \cup {WatchKey(wl[i].Name, "") : i \in DOMAIN wl}
                IN /\ cfg' = [cfg EXCEPT !.Watchlist = wl]
                   /\ st' = [st EXCEPT !.NextCheckAt = Restrict(@, watched),
                                        !.LastVersions = Restrict(@, watched)]
    /\ UNCHANGED <<rpc, opts, snap, rNow, installed, due, results, outdated, updated,
                   toUpgrade, res, rErr, brewLog, notes>>
    /\ UNCHANGED <<runArgs, notRun>>

WatchNext == RunNext \/ RunAgain \/ WatchCmd

\* "a" installed as a formula and as a cask, watched as a formula or not at all
WatchInit ==
    /\ rpc = "start"
    /\ cfg \in [DefaultPolicy : {"auto"},
                Watchlist : {<<>>, <<[Name |-> "a", Type |-> "formula", Policy |-> "",
                                     IntervalMin |-> 1]>>}]
    /\ st = DefaultState
    /\ opts = [DryRun |-> FALSE, ForceUpdate |-> FALSE, NotifyOnly |-> FALSE]
    /\ snap = [formulae |-> [n \in {"a"} |-> V10], casks |-> [n \in {"a"} |-> V10]]
    /\ rNow = Minute
    /\ installed = EmptyMap
    /\ due = <<>>
    /\ results = <<>>
    /\ outdated = <<>>
    /\ updated = FALSE
    /\ toUpgrade = [formula |-> <<>>, cask |-> <<>>]
    /\ res = EmptyResult
    /\ rErr = FALSE
    /\ brewLog = <<>>
    /\ notes = <<>>
    /\ cfgIn = cfg
    /\ stIn = st
    /\ runNo = 1
    /\ api = RunApi

(***************************************************************************)
(* A run in which the metadata API answers with versions of every shape    *)
(* and with version schemes above and below the recorded one.              *)
(***************************************************************************)
\* a version that does not parse
VR10 == <<"r", "1", "0">>

\* the API answers 1.0, 1.1, r10 or no version, under scheme 0 or 2, with an
\* ETag header or without
SchemeApi == [latests |-> {V10, V11, VR10, <<>>}, schemes |-> {0, 2},
              etags |-> {"e1", ""}]

\* "a" watched once or twice, as a formula, as a cask or without a kind
SchemeWatchlists ==
    {wl \in StoredWatchlists : \A i \in DOMAIN wl : wl[i].Name = "a"}

\* the State holds nothing for "a", or version 1.0 with a scheme and a
\* freshness token under formula:a, or entries under the bare name
SchemeStates ==
    {DefaultState}
    \cup {[DefaultState EXCEPT
                !.NextCheckAt = [k \in {WatchKey("a", "formula")} |-> FormatRFC3339(0)],
                !.LastVersions = [k \in {WatchKey("a", "formula")} |-> V10],
                !.LastSchemes = [k \in {WatchKey("a", "formula")} |-> sc],
                !.ETagCache = [u \in {<<"formula", "a">>} |-> "e0"]] : sc \in 0..1}
    \cup {[DefaultState EXCEPT !.NextCheckAt = ea.NextCheckAt,
                               !.LastVersions = ea.LastVersions,
                               !.LastSchemes = ea.LastSchemes,
                               !.ETagCache = ea.ETagCache] :
            ea \in {StoredEntries("a", TRUE, comp, FormatRFC3339(0)) :
                        comp \in {"", "formula"}}}

SchemeInit ==
    /\ rpc = "start"
    /\ cfg \in [DefaultPolicy : {"auto"}, Watchlist : SchemeWatchlists]
    /\ st \in SchemeStates
    /\ opts = [DryRun |-> FALSE, ForceUpdate |-> FALSE, NotifyOnly |-> FALSE]
    /\ snap \in {[formulae |-> [n \in {"a"} |-> v], casks |-> [n \in {"a"} |-> V11]] :
                    v \in {V10, V11}}
    /\ rNow \in StoredNows
    /\ installed = EmptyMap
    /\ due = <<>>
    /\ results = <<>>
    /\ outdated = <<>>
    /\ updated = FALSE
    /\ toUpgrade = [formula |-> <<>>, cask |-> <<>>]
    /\ res = EmptyResult
    /\ rErr = FALSE
    /\ brewLog = <<>>
    /\ notes = <<>>
    /\ cfgIn = cfg
    /\ stIn = st
    /\ runNo = 1
    /\ api = SchemeApi

(***************************************************************************)
(* appendError called again and again on a State whose ring holds the      *)
(* errors of earlier runs.                                                 *)
(***************************************************************************)
\* the calls of appendError in a row
MaxAppends == 5

\* the messages recorded
Messages == {[what |-> "fetch", name |-> "a"], [what |-> "fetch", name |-> "b"],
             [what |-> "brew update failed", name |-> ""]}

\* n messages as earlier runs recorded them
Earlier(n) ==
    [i \in 1..n |-> CASE i % 3 = 0 -> [what |-> "fetch", name |-> "a"]
                      [] i % 3 = 1 -> [what |-> "fetch", name |-> "b"]
                      [] OTHER -> [what |-> "brew update failed", name |-> ""]]

\* the lengths of the ring that the State loaded holds
RingLengths == {0, MaxErrors - 2, MaxErrors - 1, MaxErrors}

ErrorsInit ==
    /\ \E n \in RingLengths :
          /\ ring = [DefaultState EXCEPT !.LastErrors = Earlier(n)]
          /\ recorded = Earlier(n)
    /\ appends = 0

\* appendError(&st, msg)
AppendError ==
    /\ appends < MaxAppends
    /\ \E msg \in Messages :
          /\ ring' = appendError(ring, msg)
          /\ recorded' = Append(recorded, msg)
    /\ appends' = appends + 1
    /\ UNCHANGED <<args, verdict, text, normal>>
    /\ UNCHANGED notCall

ErrorsIdle ==
    /\ ring = DefaultState
    /\ recorded = <<>>
    /\ appends = MaxAppends

(***************************************************************************)
(* isOutdated called once on version strings of every shape.               *)
(***************************************************************************)
\* the version strings tried, each with what it is: empty, the "latest"
\* sentinel, a structured version (with the major, minor, patch that
\* semver.NewVersion gives it after normalizeVersion), or none of these
VersionTable ==
    {[text |-> <<>>, is |-> "empty", n |-> <<0, 0, 0>>],
     [text |-> <<"l", "a", "t", "e", "s", "t">>, is |-> "sentinel", n |-> <<0, 0, 0>>],
     [text |-> <<" ", "L", "a", "t", "e", "s", "t">>, is |-> "sentinel", n |-> <<0, 0, 0>>],
     [text |-> <<"1", ".", "0">>, is |-> "structured", n |-> <<1, 0, 0>>],
     [text |-> <<"1", ".", "0", ".", "0">>, is |-> "structured", n |-> <<1, 0, 0>>],
     [text |-> <<"1", ".", "9">>, is |-> "structured", n |-> <<1, 9, 0>>],
     [text |-> <<"1", ".", "1", "0">>, is |-> "structured", n |-> <<1, 10, 0>>],
     [text |-> <<"v", "1", ".", "9">>, is |-> "structured", n |-> <<1, 9, 0>>],
     [text |-> <<"1", "_", "1", "0", ",", "2">>, is |-> "structured", n |-> <<1, 10, 2>>],
     [text |-> <<"2">>, is |-> "structured", n |-> <<2, 0, 0>>],
     [text |-> <<"r", "1", "0">>, is |-> "other", n |-> <<0, 0, 0>>],
     [text |-> <<"1", ".", "x">>, is |-> "other", n |-> <<0, 0, 0>>]}

\* the version schemes tried
Schemes == 0..2

NoArgs == [installed |-> <<>>, latest |-> <<>>, scheme |-> 0, prevScheme |-> 0]

OutdatedInit ==
    /\ \E i, l \in VersionTable, sc, prev \in Schemes :
          args = [installed |-> i.text, latest |-> l.text, scheme |-> sc, prevScheme |-> prev]
    /\ verdict = <<>>

\* isOutdated(installed, latest, scheme, prevScheme)
IsOutdated ==
    /\ verdict = <<>>
    /\ verdict' = <<isOutdated(args.installed, args.latest, args.scheme, args.prevScheme)>>
    /\ UNCHANGED <<ring, recorded, appends, args, text, normal>>
    /\ UNCHANGED notCall

OutdatedIdle ==
    /\ args = NoArgs
    /\ verdict = <<FALSE>>

(***************************************************************************)
(* normalizeVersion called on a string, and again on what it returned.     *)
(***************************************************************************)
\* the longest string tried of every shape
MaxLen == 3

\* the characters of the strings tried
Chars == {"v", "1", ".", "_", ",", " "}

\* the strings over cs of length n at most
Strings(cs, n) == UNION {[1..k -> cs] : k \in 0..n}

V123 == <<"1", ".", "2", ".", "3">>

\* every string of MaxLen characters at most, and 1.2.3 as it may be written
Texts ==
    Strings(Chars, MaxLen)
    \cup {V123, <<"v">> \o V123, <<"v", "1", "_", "2", "_", "3">>,
          <<"1", ",", "2", ",", "3">>, <<" ", "v", "1", ".", "2", "_", "3", " ">>}

\* the calls in a row: on the string, then on the result
NormalizeCalls == 2

NormalizeInit ==
    /\ text \in Texts
    /\ normal = <<>>

\* normalizeVersion(v), v the string or what the call before returned
NormalizeVersion ==
    /\ Len(normal) < NormalizeCalls
    /\ normal' = Append(normal, normalizeVersion(IF normal = <<>> THEN text
                                                 ELSE normal[Len(normal)]))
    /\ UNCHANGED <<ring, recorded, appends, args, verdict, text>>
    /\ UNCHANGED notCall

NormalizeIdle ==
    /\ text = <<>>
    /\ normal = <<<<>>, <<>>>>

CallIdle == ErrorsIdle /\ OutdatedIdle /\ NormalizeIdle

RunIdle ==
    /\ rpc = "returned"
    /\ cfg = [DefaultPolicy |-> "auto", Watchlist |-> <<>>]
    /\ st = DefaultState
    /\ opts = [DryRun |-> FALSE, ForceUpdate |-> FALSE, NotifyOnly |-> FALSE]
    /\ snap = [formulae |-> EmptyMap, casks |-> EmptyMap]
    /\ rNow = 0
    /\ installed = EmptyMap
    /\ due = <<>>
    /\ results = <<>>
    /\ outdated = <<>>
    /\ updated = FALSE
    /\ toUpgrade = [formula |-> <<>>, cask |-> <<>>]
    /\ res = EmptyResult
    /\ rErr = FALSE
    /\ brewLog = <<>>
    /\ notes = <<>>
    /\ cfgIn = cfg
    /\ stIn = st
    /\ runNo = 1
    /\ api = RunApi

CheckInit ==
    /\ lockFile \in InitFiles
    /\ now = 0
    /\ pc = [p \in Procs |-> "load"]
    /\ isst = [p \in Procs |-> NoSeen]
    /\ attempts = [p \in Procs |-> 0]
    /\ acqErr = [p \in Procs |-> ""]
    /\ hist = [p \in Procs |-> <<>>]
    /\ exitErr = [p \in Procs |-> FALSE]
    /\ cfgDisk = 0
    /\ stDisk = 0
    /\ cfgEdits = {}
    /\ cfgLoaded = [p \in Procs |-> {}]
    /\ editsMade = 0

CheckNext ==
    \/ \E p \in Procs : LoadConfigState(p)
    \/ \E p \in Procs : AcquireOpen(p)
    \/ \E p \in Procs : AcquireWrite(p)
    \/ \E p \in Procs : AcquireIsStale(p)
    \/ \E p \in Procs : AcquireRemove(p)
    \/ \E p \in Procs : AcquireFailed(p)
    \/ \E p \in Procs : HasRunningBrew(p)
    \/ \E p \in Procs : CheckRun(p)
    \/ \E p \in Procs : CheckSaveConfig(p)
    \/ \E p \in Procs : CheckSaveState(p)
    \/ \E p \in Procs : Release(p)
    \/ Tick

CheckSpecInit == CheckInit /\ FetchIdle /\ RunIdle /\ CallIdle

SpecCheck == CheckSpecInit /\ [][CheckNext]_vars

\* `check` invocations and `set` / `watch` invocations, no lock file to begin
\* with
EditSpecInit == CheckSpecInit /\ lockFile = NoFile

EditNext == CheckNext \/ SetCmd

SpecEdit == EditSpecInit /\ [][EditNext]_vars

CheckIdle ==
    /\ lockFile = NoFile
    /\ now = 0
    /\ pc = [p \in Procs |-> "done"]
    /\ isst = [p \in Procs |-> NoSeen]
    /\ attempts = [p \in Procs |-> 0]
    /\ acqErr = [p \in Procs |-> ""]
    /\ hist = [p \in Procs |-> <<>>]
    /\ exitErr = [p \in Procs |-> FALSE]
    /\ cfgDisk = 0
    /\ stDisk = 0
    /\ cfgEdits = {}
    /\ cfgLoaded = [p \in Procs |-> {}]
    /\ editsMade = 0

FetchSpecInit == FetchInit /\ CheckIdle /\ RunIdle /\ CallIdle

SpecFetch == FetchSpecInit /\ [][FetchNext]_vars

\* the Go scheduler runs every goroutine that can take a step, and every
\* FetchLatest returns (the client's 10 s timeout)
FairFetch == SpecFetch /\ WF_vars(FetchSteps)

RunSpecInit == RunInit /\ CheckIdle /\ FetchIdle /\ CallIdle

SpecRun == RunSpecInit /\ [][RunNext]_vars

StoredSpecInit == StoredInit /\ CheckIdle /\ FetchIdle /\ CallIdle

SpecStored == StoredSpecInit /\ [][RunNext]_vars

RunsSpecInit == RunsInit /\ CheckIdle /\ FetchIdle /\ CallIdle

SpecRuns == RunsSpecInit /\ [][RunsNext]_vars

WatchSpecInit == WatchInit /\ CheckIdle /\ FetchIdle /\ CallIdle

SpecWatch == WatchSpecInit /\ [][WatchNext]_vars

SchemeSpecInit == SchemeInit /\ CheckIdle /\ FetchIdle /\ CallIdle

SpecScheme == SchemeSpecInit /\ [][RunNext]_vars

ErrorsSpecInit ==
    ErrorsInit /\ OutdatedIdle /\ NormalizeIdle /\ CheckIdle /\ FetchIdle /\ RunIdle

SpecErrors == ErrorsSpecInit /\ [][AppendError]_vars

OutdatedSpecInit ==
    OutdatedInit /\ ErrorsIdle /\ NormalizeIdle /\ CheckIdle /\ FetchIdle /\ RunIdle

SpecOutdated == OutdatedSpecInit /\ [][IsOutdated]_vars

NormalizeSpecInit ==
    NormalizeInit /\ ErrorsIdle /\ OutdatedIdle /\ CheckIdle /\ FetchIdle /\ RunIdle

SpecNormalize == NormalizeSpecInit /\ [][NormalizeVersion]_vars

(***************************************************************************)
(* Claims about the Process Lock and the `check` command (SpecCheck).      *)
(***************************************************************************)
\* between a successful Acquire and the end of its Release
HeldPcs == {"hasBrew", "run", "saveCfg", "saveSt", "release"}

Count(s, e) == Cardinality({i \in DOMAIN s : s[i] = e})

WellFormed(parts) == Len(parts) = 2 /\ parts[1].num /\ parts[2].num

\* the staleness rule as the specification words it
StaleCond(s) == ~WellFormed(s.parts) \/ ~s.alive \/ s.age > LockTimeout

\* C1: at most one `check` invocation at a time is between a successful
\* Acquire and its Release. The code does not guarantee it: this is the
\* claim, which TLC refutes.
C1_MutualExclusion ==
    Cardinality({p \in Procs : pc[p] \in HeldPcs}) <= 1

\* C2: an invocation that acquired the lock releases it on every exit path,
\* exactly once, and Release is its last event: no save follows it.
C2_ReleasedOnEveryExit ==
    \A p \in Procs :
        /\ (pc[p] = "done" /\ Count(hist[p], "acquire") > 0)
              => Count(hist[p], "release") = 1
        /\ Count(hist[p], "release") > 0
              => /\ pc[p] = "done"
                 /\ hist[p][Len(hist[p])] = "release"
                 /\ Count(hist[p], "acquire") = 1

C2_Witness ==
    \E p, q \in Procs :
        /\ pc[p] = "done" /\ pc[q] = "done"
        /\ hist[p] = <<"load", "acquire", "run", "saveConfig", "saveState", "release">>
        /\ hist[q] = <<"load", "acquire", "release">>

\* C3: the lock is acquired before Config and State are loaded. The code loads
\* first: this is the claim, which TLC refutes.
C3_LockBeforeLoad ==
    \A p \in Procs : \A i \in DOMAIN hist[p] :
        hist[p][i] = "load" => \E j \in 1..(i - 1) : hist[p][j] = "acquire"

\* C4: an Acquire that finds a lock file that is not stale (well-formed, owner
\* alive, age within the timeout) fails with "lock already held", at once: it
\* neither removes the file nor retries nor takes the lock.
C4_FreshLockFailsHeld ==
    \A p \in Procs :
        (isst[p].set /\ WellFormed(isst[p].parts) /\ isst[p].alive
            /\ isst[p].age <= LockTimeout)
        => /\ acqErr[p] = "held"
           /\ pc[p] \in {"acqFail", "done"}
           /\ Count(hist[p], "acquire") = 0

C4_Witness ==
    \E p \in Procs :
        /\ pc[p] = "done" /\ acqErr[p] = "held" /\ attempts[p] = 1
        /\ isst[p].age = LockTimeout
        /\ lockFile.exists /\ lockFile.parts = isst[p].parts

C6_HeldMeansSilentSkip ==
    \A p \in Procs :
        (pc[p] = "done" /\ acqErr[p] = "held")
        => /\ ~exitErr[p]
           /\ hist[p] = <<"load">>
           /\ cfgDisk # p /\ stDisk # p

C6_Witness ==
    \E p, q \in Procs :
        /\ pc[p] = "done" /\ acqErr[p] = "held" /\ ~exitErr[p]
        /\ pc[q] \in HeldPcs /\ isst[p].parts = FormatLock(q, 0)

(***************************************************************************)
(* Claims about the Fetch Dispatcher (SpecFetch, FairFetch).               *)
(***************************************************************************)
\* how many entries of the list s are about item x
ItemCount(s, x) == Cardinality({i \in DOMAIN s : s[i] = x})
OutCount(x) == Cardinality({i \in DOMAIN out : out[i].item = x})

\* C7: when fetchLatest returns, out holds exactly one outcome per input item,
\* duplicates counted, each carrying its item, and none for any other item;
\* and at no time more outcomes for an item than the input holds.
C7_OneResultPerItem ==
    /\ \A i \in DOMAIN out : out[i].item \in ItemIds /\ out[i].kind \in {"ok", "err"}
    /\ \A x \in ItemIds : OutCount(x) <= ItemCount(fItems, x)
    /\ mainPc = "returned"
          => /\ Len(out) = Len(fItems)
             /\ \A x \in ItemIds : OutCount(x) = ItemCount(fItems, x)

C7_Witness ==
    /\ mainPc = "returned"
    /\ Len(fItems) = MaxItems
    /\ ItemCount(fItems, "a") >= 2 /\ ItemCount(fItems, "b") >= 2
    /\ out[1].item = "b"
    /\ \E i, j \in DOMAIN out : out[i].kind = "err" /\ out[j].kind = "ok"

FetchTerminated ==
    /\ mainPc = "returned"
    /\ feederPc = "done"
    /\ \A w \in Workers : wPc[w] = "done"
    /\ wgCount = 0
    /\ jobsClosed /\ resultsClosed

\* C8: every call of fetchLatest ends with the caller returned, the feeder and
\* all workers exited and results closed, whatever the list and whenever the
\* context is cancelled.
C8_DispatcherTerminates == <>[]FetchTerminated

C8_Witness ==
    /\ FetchTerminated
    /\ ctxCancelled
    /\ Len(fItems) > FetchWorkers
    /\ \E i, j \in DOMAIN out : out[i].kind = "ok" /\ out[j].kind = "err" /\ i < j

(***************************************************************************)
(* Claims about the Reconciliation Engine (check.Run)                      *)
(***************************************************************************)
\* the names passed to brew's operation op in this run
Passed(op) ==
    UNION {Range(brewLog[k].names) : k \in {j \in DOMAIN brewLog : brewLog[j].op = op}}

Called(op) == \E k \in DOMAIN brewLog : brewLog[k].op = op

\* the upgrade operation of an item's kind, as splitByType decides it
UpgradeOp(item) == IF item.Type = "cask" THEN "upgradeCask" ELSE "upgradeFormula"

NotifyPolicy(o) == EffectivePolicy(cfg, o.Item) = "notify"

\* the watchlist holds no two items with the same key
UniqueKeys ==
    \A i, j \in DOMAIN cfg.Watchlist :
        WatchKey(cfg.Watchlist[i].Name, cfg.Watchlist[i].Type)
            = WatchKey(cfg.Watchlist[j].Name, cfg.Watchlist[j].Type) => i = j

\* C9: whatever the options, no outdated item whose effective policy is
\* "notify" has its name among the names passed to the upgrade operation of
\* its kind.
C9_NotifyNeverUpgraded ==
    \A i \in DOMAIN outdated :
        NotifyPolicy(outdated[i]) => outdated[i].Item.Name \notin Passed(UpgradeOp(outdated[i].Item))

\* C9 where the watchlist of the run holds no two items with the same key
C9_NotifyNeverUpgradedUniqueKeys == UniqueKeys => C9_NotifyNeverUpgraded

\* the update notifications sent for the outdated item o
NotifiedOf(o) ==
    {k \in DOMAIN notes : notes[k].kind = "update" /\ notes[k].item = o.Item}

\* C10: a run with dry_run or notify_only and a non-empty outdated set returns
\* having sent a notification for every outdated item whatever its policy and
\* stamped last_check_at, with neither brew update nor an upgrade invoked.
C10_DryRunNotifiesAllUpgradesNone ==
    (rpc = "returned" /\ (opts.DryRun \/ opts.NotifyOnly) /\ outdated # <<>>) =>
        /\ \A i \in DOMAIN outdated : NotifiedOf(outdated[i]) # {}
        /\ st.LastCheckAt = rNow
        /\ ~Called("update")
        /\ ~Called("upgradeFormula")
        /\ ~Called("upgradeCask")

\* a dry run or notify-only run returned with an outdated item of policy "auto"
C10_Witness ==
    /\ rpc = "returned"
    /\ opts.DryRun \/ opts.NotifyOnly
    /\ \E i \in DOMAIN outdated : EffectivePolicy(cfg, outdated[i].Item) = "auto"
    /\ \E i \in DOMAIN outdated : NotifyPolicy(outdated[i])
    /\ notes # <<>>

\* the brew update (refresh-index) calls of this run that failed
FailedUpdates == {k \in DOMAIN brewLog : brewLog[k].op = "update" /\ ~brewLog[k].ok}

LastOf(s) == s[Len(s)]

\* C11: once brew update has failed, on the force_update path or before the
\* upgrade, the run has returned with the error appended to the error ring, a
\* failure notification fired and last_check_at stamped, and no brew operation
\* (outdated query, upgrade) follows the failed call.
C11_UpdateFailureReturnsEarly ==
    \A k \in FailedUpdates :
        /\ rpc = "returned"
        /\ k = Len(brewLog)
        /\ st.LastErrors # <<>>
        /\ LastOf(st.LastErrors).what = "brew update failed"
        /\ notes # <<>>
        /\ LastOf(notes) = [kind |-> "failure", action |-> "brew update failed", item |-> <<>>]
        /\ st.LastCheckAt = rNow

\* brew update failed before the upgrade, with an item outdated and to upgrade
C11_Witness ==
    /\ FailedUpdates # {}
    /\ ~opts.ForceUpdate
    /\ \E i \in DOMAIN outdated : EffectivePolicy(cfg, outdated[i].Item) = "auto"

\* brew update failed on the force_update path
C11_WitnessForced ==
    /\ FailedUpdates # {}
    /\ opts.ForceUpdate

\* the names brew's outdated query op reported in this run
Confirmed(op) ==
    UNION {Range(brewLog[k].out) : k \in {j \in DOMAIN brewLog : brewLog[j].op = op /\ brewLog[j].ok}}

\* the upgrade calls of the run pass names, and only names that are both in the
\* policy-filtered partition and in the report of the outdated query query
UpgradesWithin(query, upgrade, partition) ==
    \A k \in DOMAIN brewLog :
        brewLog[k].op = upgrade =>
            /\ brewLog[k].names # <<>>
            /\ Range(brewLog[k].names) \subseteq (Range(partition) \cap Confirmed(query))

\* the run returned from the re-verification with both partitions empty
BothEmptyAfterFilter ==
    /\ rpc = "returned"
    /\ Called("update") /\ FailedUpdates = {}
    /\ toUpgrade.formula = <<>>
    /\ toUpgrade.cask = <<>>

FailedQueries ==
    {k \in DOMAIN brewLog : brewLog[k].op \in {"outdatedFormula", "outdatedCask"} /\ ~brewLog[k].ok}

\* the upgrade calls of the run pass names: names of the policy-filtered
\* partition that the report of query confirms, or the whole partition when
\* query failed
UpgradesWithinOrUnverified(query, upgrade, partition) ==
    \A k \in DOMAIN brewLog :
        brewLog[k].op = upgrade =>
            /\ brewLog[k].names # <<>>
            /\ IF \E j \in FailedQueries : brewLog[j].op = query
               THEN brewLog[k].names = partition
               ELSE Range(brewLog[k].names) \subseteq (Range(partition) \cap Confirmed(query))

C12_WitnessBothEmpty ==
    /\ BothEmptyAfterFilter
    /\ Called("outdatedFormula")
    /\ Called("outdatedCask")

\* the calls of brew operation op in this run that failed
FailedCalls(op) == {k \in DOMAIN brewLog : brewLog[k].op = op /\ ~brewLog[k].ok}

\* the entries of the error ring, and the failure notifications, titled title
ErrorsOf(title) == {k \in DOMAIN st.LastErrors : st.LastErrors[k].what = title}
FailuresNotified(title) ==
    {k \in DOMAIN notes : notes[k].kind = "failure" /\ notes[k].action = title}

\* the run went through its upgrade step
Upgraded == rpc = "returned" /\ st.LastUpdateAt # NoTime

\* C13: the formula upgrade comes before the cask upgrade, the cask upgrade is
\* attempted whether or not the formula upgrade failed, and each failing
\* upgrade has its own entry in the error ring and its own failure
\* notification.
C13_UpgradesIndependent ==
    /\ \A i, j \in DOMAIN brewLog :
          brewLog[i].op = "upgradeFormula" /\ brewLog[j].op = "upgradeCask" => i < j
    /\ Upgraded =>
          /\ toUpgrade.formula # <<>> => Called("upgradeFormula")
          /\ toUpgrade.cask # <<>> => Called("upgradeCask")
    /\ Cardinality(ErrorsOf("formula upgrade failed")) = Cardinality(FailedCalls("upgradeFormula"))
    /\ Cardinality(FailuresNotified("formula upgrade failed"))
          = Cardinality(FailedCalls("upgradeFormula"))
    /\ Cardinality(ErrorsOf("cask upgrade failed")) = Cardinality(FailedCalls("upgradeCask"))
    /\ Cardinality(FailuresNotified("cask upgrade failed"))
          = Cardinality(FailedCalls("upgradeCask"))
    /\ \A i \in ErrorsOf("formula upgrade failed"), j \in ErrorsOf("cask upgrade failed") : i < j

\* the formula upgrade failed and the cask upgrade was attempted, and failed too
C13_Witness ==
    /\ Upgraded
    /\ FailedCalls("upgradeFormula") # {}
    /\ FailedCalls("upgradeCask") # {}

\* the "Updated" notifications sent for the outdated item o
UpdatedNotified(o) ==
    {k \in DOMAIN notes :
        notes[k].kind = "update" /\ notes[k].action = "Updated" /\ notes[k].item = o.Item}

\* the outdated items that survived the policy filter and the re-verification
Survivors == Range(filterOutdated(outdated, toUpgrade.formula, toUpgrade.cask))

\* C14: after the upgrade step an "Updated" notification was sent for every
\* outdated item that survived the re-verification filter, and for no outdated
\* item that policy or the re-verification excluded.
C14_UpdatedOnlyForUpgraded ==
    Upgraded =>
        \A i \in DOMAIN outdated :
            UpdatedNotified(outdated[i]) # {} <=> outdated[i] \in Survivors

\* the half of C14 that holds: every survivor is notified as "Updated"
C14_SurvivorsNotified ==
    Upgraded => \A i \in DOMAIN outdated :
        outdated[i] \in Survivors => UpdatedNotified(outdated[i]) # {}

\* a run without dry_run and notify_only has returned, its brew update succeeded
NormalRunReturned ==
    /\ rpc = "returned"
    /\ ~opts.DryRun /\ ~opts.NotifyOnly
    /\ Called("update") /\ FailedUpdates = {}

\* C15: when a normal run has returned, every outdated item was passed to the
\* upgrade operation of its kind or had an update notification sent, and every
\* outdated item whose effective policy is "notify" had an update notification
\* sent.
C15_OutdatedUpgradedOrNotified ==
    NormalRunReturned =>
        \A i \in DOMAIN outdated :
            /\ \/ outdated[i].Item.Name \in Passed(UpgradeOp(outdated[i].Item))
               \/ NotifiedOf(outdated[i]) # {}
            /\ NotifyPolicy(outdated[i]) => NotifiedOf(outdated[i]) # {}

\* the particular case of C15: every outdated item of effective policy "notify"
\* had an update notification sent when a normal run has returned
C15_NotifyPolicyNotified ==
    NormalRunReturned =>
        \A i \in DOMAIN outdated : NotifyPolicy(outdated[i]) => NotifiedOf(outdated[i]) # {}

(***************************************************************************)
(* Claims about the due set and the State maps                             *)
(***************************************************************************)
\* Run has computed the due set, and not yet reconciled anything
DueComputed ==
    /\ ~rErr
    /\ rpc = "fetch" \/ (rpc = "returned" /\ due = <<>> /\ brewLog # <<>>)

\* the next-check time recorded for item: under its composite key or, failing
\* that, under its bare name; <<>> if there is none
RecordedNext(s, item) ==
    LET key == WatchKey(item.Name, item.Type)
        bare == WatchKey(item.Name, "")
    IN IF key \in DOMAIN s.NextCheckAt THEN <<s.NextCheckAt[key]>>
       ELSE IF bare \in DOMAIN s.NextCheckAt THEN <<s.NextCheckAt[bare]>>
       ELSE <<>>

\* no next-check time recorded, or one that is empty or does not parse, or the
\* instant t is not before it
IsDueAt(s, item, t) ==
    \/ RecordedNext(s, item) = <<>>
    \/ ~RecordedNext(s, item)[1].valid
    \/ t >= RecordedNext(s, item)[1].t

\* C16: a watched item is in the due set of a run if and only if it has no
\* recorded next-check time (composite key, else bare name), or that time is
\* empty or does not parse, or the run's instant is not before it; only due
\* items are fetched.
C16_DueIffNoFutureNextCheck ==
    /\ DueComputed =>
          \A i \in DOMAIN cfg.Watchlist :
              cfg.Watchlist[i] \in Range(due) <=> IsDueAt(st, cfg.Watchlist[i], rNow)
    /\ \A k \in DOMAIN results : results[k].item \in Range(due)

\* of two watched items one is due at the very second of its next-check time,
\* the other, recorded under its bare name only, is not due
C16_Witness ==
    /\ DueComputed
    /\ \E i, j \in DOMAIN cfg.Watchlist :
          /\ cfg.Watchlist[i] \in Range(due)
          /\ RecordedNext(st, cfg.Watchlist[i]) = <<FormatRFC3339(rNow)>>
          /\ cfg.Watchlist[j] \notin Range(due)
          /\ WatchKey(cfg.Watchlist[j].Name, cfg.Watchlist[j].Type) \notin DOMAIN st.NextCheckAt

\* a run that was not failed by brew.ListInstalled has returned
RunReturned == rpc = "returned" /\ ~rErr

\* the results of this run for the due item d
ResultsFor(d) == {k \in DOMAIN results : results[k].item = d}

\* the next-check time the State holds under the composite key of item
NextOf(s, item) == Get(s.NextCheckAt, WatchKey(item.Name, item.Type), NotATime)

\* an item without a recorded next-check time is due
UnrecordedIsDue ==
    DueComputed =>
        \A i \in DOMAIN cfg.Watchlist :
            RecordedNext(st, cfg.Watchlist[i]) = <<>> => cfg.Watchlist[i] \in Range(due)

\* an item whose recorded next-check time parses is due in a run exactly if
\* the run's instant is not before that time
RecordedIsDueFromThen ==
    DueComputed =>
        \A i \in DOMAIN cfg.Watchlist :
            LET rec == RecordedNext(stIn, cfg.Watchlist[i])
            IN (rec # <<>> /\ rec[1].valid) =>
                  (cfg.Watchlist[i] \in Range(due) <=> rNow >= rec[1].t)

\* C17: an item with no recorded next-check time is due; after the run its
\* next-check time is the run's instant plus its interval; and in a later run
\* it is not due before that time.
C17_NextCheckIsNowPlusInterval ==
    /\ UnrecordedIsDue
    /\ RunReturned =>
          \A i \in DOMAIN due :
              NextOf(st, due[i]) = [valid |-> TRUE, t |-> rNow + due[i].IntervalMin * Minute]
    /\ RecordedIsDueFromThen

\* C17 as the code has it: after a run in which the item's fetch succeeded,
\* its next-check time is the run's instant plus its interval cut down to the
\* whole second, as RFC 3339 text holds it.
C17_NextCheckIsNowPlusIntervalInSeconds ==
    /\ UnrecordedIsDue
    /\ RunReturned =>
          \A i \in DOMAIN due :
              (\E k \in ResultsFor(due[i]) : ~results[k].err) =>
                  LET at == rNow + due[i].IntervalMin * Minute
                  IN NextOf(st, due[i]) = [valid |-> TRUE, t |-> at - (at % TicksPerSecond)]
    /\ RecordedIsDueFromThen

\* a second run, less than the interval after a first one that began between
\* two seconds, finds the item due again: its next-check time has come
C17_Witness ==
    /\ runNo = 2
    /\ DueComputed
    /\ \E i \in DOMAIN cfg.Watchlist :
          /\ cfg.Watchlist[i] \in Range(due)
          /\ RecordedNext(stIn, cfg.Watchlist[i]) = <<FormatRFC3339(rNow)>>
          /\ stIn.LastUpdateAt = NoTime
          /\ stIn.LastCheckAt + Minute > rNow

\* a second run before the next-check time of an item leaves it out
C17_WitnessNotDue ==
    /\ runNo = 2
    /\ DueComputed
    /\ \E i \in DOMAIN cfg.Watchlist :
          /\ cfg.Watchlist[i] \notin Range(due)
          /\ RecordedNext(stIn, cfg.Watchlist[i]) # <<>>

\* the entries of the error ring of s that report a failed fetch of name
FetchErrors(s, name) ==
    {k \in DOMAIN s.LastErrors : s.LastErrors[k] = [what |-> "fetch", name |-> name]}

\* what the State s stores for item: next-check time, version, scheme under
\* its key, and the freshness token of its URL; <<>> for what is absent
StoredFor(s, item) ==
    LET key == WatchKey(item.Name, item.Type)
        At(m, k) == IF k \in DOMAIN m THEN <<m[k]>> ELSE <<>>
    IN [next |-> At(s.NextCheckAt, key), version |-> At(s.LastVersions, key),
        scheme |-> At(s.LastSchemes, key), etag |-> At(s.ETagCache, URLFor(item))]

\* the step of Run that reconciles the results
ReconcileStep == rpc = "reconcile" /\ rpc' = "forceUpdate"

StateKeys(s) == DOMAIN s.NextCheckAt \cup DOMAIN s.LastVersions \cup DOMAIN s.LastSchemes

\* the State the run was given holds entries, all under bare names, and every
\* item of the Config it was given carries a kind
OnlyBareGiven ==
    /\ StateKeys(stIn) # {}
    /\ \A k \in StateKeys(stIn) : k[1] = ""
    /\ \A i \in DOMAIN cfgIn.Watchlist : cfgIn.Watchlist[i].Type # ""

\* what s holds under the key k, <<>> for what is absent
EntriesAt(s, k) ==
    LET At(m) == IF k \in DOMAIN m THEN <<m[k]>> ELSE <<>>
    IN [next |-> At(s.NextCheckAt), version |-> At(s.LastVersions),
        scheme |-> At(s.LastSchemes)]

NoEntriesAt(s, k) == k \notin StateKeys(s)

\* when the keys have been normalized, each surviving item has under its
\* composite key what the given State held under its bare name
MigratedEqualsBare ==
    DueComputed /\ OnlyBareGiven =>
        \A i \in DOMAIN cfg.Watchlist :
            LET item == cfg.Watchlist[i]
            IN EntriesAt(st, WatchKey(item.Name, item.Type))
                = EntriesAt(stIn, WatchKey(item.Name, ""))

\* when the keys have been normalized, what the given State held under the
\* composite key of a surviving item is still there
CompositeNotOverwritten ==
    DueComputed =>
        \A i \in DOMAIN cfg.Watchlist :
            LET key == WatchKey(cfg.Watchlist[i].Name, cfg.Watchlist[i].Type)
                given == EntriesAt(stIn, key)
                held == EntriesAt(st, key)
            IN /\ given.next # <<>> => held.next = given.next
               /\ given.version # <<>> => held.version = given.version
               /\ given.scheme # <<>> => held.scheme = given.scheme

\* when the run has returned, the State holds nothing under the bare name of a
\* surviving item
BareRemoved ==
    RunReturned /\ OnlyBareGiven =>
        \A i \in DOMAIN cfg.Watchlist :
            NoEntriesAt(st, WatchKey(cfg.Watchlist[i].Name, ""))

BareRemovedWhenFetched ==
    RunReturned /\ OnlyBareGiven =>
        \A i \in DOMAIN cfg.Watchlist :
            LET name == cfg.Watchlist[i].Name
                bare == WatchKey(name, "")
                fetched == {k \in DOMAIN results :
                                results[k].item.Name = name /\ ~results[k].err}
                modified == {k \in fetched : ~results[k].notModified}
            IN /\ fetched # {} => bare \notin DOMAIN st.NextCheckAt
               /\ modified # {} => bare \notin DOMAIN st.LastSchemes
               /\ (\E k \in modified : results[k].latest # <<>>)
                    => bare \notin DOMAIN st.LastVersions
               /\ (/\ fetched = {}
                   /\ \A j \in DOMAIN res.Removed : res.Removed[j].Name # name)
                    => EntriesAt(st, bare) = EntriesAt(stIn, bare)

C19_WitnessFetched ==
    /\ RunReturned /\ OnlyBareGiven
    /\ \E k \in DOMAIN results :
          /\ ~results[k].err
          /\ WatchKey(results[k].item.Name, "") \in DOMAIN stIn.NextCheckAt
          /\ WatchKey(results[k].item.Name, "") \notin DOMAIN st.NextCheckAt

\* the key k is the composite key or the bare name of an item of the watchlist wl
Watched(wl, k) ==
    \E i \in DOMAIN wl : k \in {WatchKey(wl[i].Name, wl[i].Type), WatchKey(wl[i].Name, "")}

\* C20: when a run has returned without error, every key of the State's
\* next-check, last-version and last-scheme maps is the composite key or the
\* bare name of an item of the returned watchlist, and a key the given State
\* held for a package that the given watchlist does not name is gone.
C20_OrphanKeysCollected ==
    RunReturned =>
        /\ \A k \in StateKeys(st) : Watched(cfg.Watchlist, k)
        /\ \A k \in StateKeys(stIn) :
              (\A i \in DOMAIN cfgIn.Watchlist : cfgIn.Watchlist[i].Name # k[2])
                => k \notin StateKeys(st)

\* a run returned without the entries the given State held for a package that
\* is not watched, and without those of an item it removed from the watchlist
C20_Witness ==
    /\ RunReturned
    /\ \E k \in StateKeys(stIn) :
          /\ \A i \in DOMAIN cfgIn.Watchlist : cfgIn.Watchlist[i].Name # k[2]
          /\ k \notin StateKeys(st)
    /\ \E j \in DOMAIN res.Removed :
          /\ WatchKey(res.Removed[j].Name, res.Removed[j].Type) \in DOMAIN stIn.LastSchemes
          /\ ~Watched(cfg.Watchlist, WatchKey(res.Removed[j].Name, res.Removed[j].Type))

\* item is absent from the installed snapshot: looked up under its kind when
\* it has one, else among the formulae and then among the casks
Absent(item) ==
    CASE item.Type = "formula" -> item.Name \notin DOMAIN snap.formulae
      [] item.Type = "cask" -> item.Name \notin DOMAIN snap.casks
      [] OTHER -> item.Name \notin DOMAIN snap.formulae \cup DOMAIN snap.casks

\* x is the item `item`, whatever kind it was given if item has none
SameItem(item, x) == x.Name = item.Name /\ (item.Type = "" \/ x.Type = item.Type)

\* the kind under which the snapshot has item
FoundAs(item) ==
    IF item.Type # "" THEN item.Type
    ELSE IF item.Name \in DOMAIN snap.formulae THEN "formula" ELSE "cask"

\* an absent item is not in the returned watchlist, is reported in Removed
\* and is not among the fetched
AbsentItemsRemoved ==
    RunReturned =>
        \A i \in DOMAIN cfgIn.Watchlist :
            LET item == cfgIn.Watchlist[i]
            IN Absent(item) =>
                /\ \A j \in DOMAIN cfg.Watchlist : ~SameItem(item, cfg.Watchlist[j])
                /\ \E j \in DOMAIN res.Removed : res.Removed[j] = item
                /\ \A j \in DOMAIN due : ~SameItem(item, due[j])
                /\ \A j \in DOMAIN results : ~SameItem(item, results[j].item)

\* the items of the returned watchlist are the items given that are not
\* absent, in their order, each with the kind under which it was found
PresentItemsKept ==
    RunReturned =>
        cfg.Watchlist =
            LET present == SelectSeq(cfgIn.Watchlist, LAMBDA item : ~Absent(item))
            IN [j \in DOMAIN present |-> [present[j] EXCEPT !.Type = FoundAs(present[j])]]

\* C21: when a run has returned without error, every item of the given
\* watchlist that is absent from the installed snapshot is out of the returned
\* watchlist, is reported in Removed, was not fetched, and the State holds
\* nothing under its composite key nor under its bare name; every item that
\* remains is installed and carries the kind under which it was found.
C21_MissingItemsRemoved ==
    /\ AbsentItemsRemoved
    /\ PresentItemsKept
    /\ RunReturned =>
         \A i \in DOMAIN cfgIn.Watchlist :
            LET item == cfgIn.Watchlist[i]
            IN Absent(item) =>
                /\ NoEntriesAt(st, WatchKey(item.Name, item.Type))
                /\ NoEntriesAt(st, WatchKey(item.Name, ""))

\* the State of a returned run holds nothing for an absent item under its
\* composite key, and no next-check time and no version under its bare name
AbsentEntriesDeleted ==
    RunReturned =>
        \A i \in DOMAIN cfgIn.Watchlist :
            LET item == cfgIn.Watchlist[i]
                bare == WatchKey(item.Name, "")
            IN Absent(item) =>
                /\ item.Type # "" => NoEntriesAt(st, WatchKey(item.Name, item.Type))
                /\ bare \notin DOMAIN st.NextCheckAt \cup DOMAIN st.LastVersions
                /\ (\A j \in DOMAIN cfg.Watchlist : cfg.Watchlist[j].Name # item.Name)
                     => NoEntriesAt(st, bare)

\* what holds of C21: all of it but the scheme filed under the bare name of an
\* absent item of whose name another item remains
C21_MissingItemsRemovedButBareScheme ==
    AbsentItemsRemoved /\ PresentItemsKept /\ AbsentEntriesDeleted

\* a run returned with the scheme still filed under the bare name of an item
\* it removed
C21_BareSchemeLeft ==
    /\ RunReturned
    /\ \E j \in DOMAIN res.Removed :
          /\ WatchKey(res.Removed[j].Name, "") \in DOMAIN st.LastSchemes
          /\ WatchKey(res.Removed[j].Name, "") \notin DOMAIN st.LastVersions

(***************************************************************************)
(* Claims about the error ring (SpecErrors) and about isOutdated           *)
(* (SpecOutdated).                                                         *)
(***************************************************************************)
\* the last n elements of s, all of s if it has fewer
LastN(s, n) == IF Len(s) > n THEN SubSeq(s, Len(s) - n + 1, Len(s)) ELSE s

\* C22: after any sequence of error recordings the error ring holds at most 20
\* messages, and they are the most recently recorded ones in the order of
\* recording.
C22_RingHoldsLast20 ==
    /\ Len(ring.LastErrors) <= 20
    /\ ring.LastErrors = LastN(recorded, 20)

\* more than 20 messages were recorded, and the oldest of them are gone
C22_Witness ==
    /\ appends > 0
    /\ Len(recorded) > 22
    /\ Len(ring.LastErrors) = 20
    /\ ring.LastErrors[1] # recorded[1]

(***************************************************************************)
(* Claims about the Result and the action phase of Run (SpecRun).          *)
(***************************************************************************)
\* C23: when a run has returned, every error the run appended to the error
\* ring (the ring was empty when the run began) is in the Errors of its Result.
C23_ResultHasRunErrors ==
    rpc = "returned" /\ stIn.LastErrors = <<>> =>
        \A k \in DOMAIN st.LastErrors :
            \E j \in DOMAIN res.Errors : res.Errors[j] = st.LastErrors[k]

\* a run returned with a fetch error and a failed upgrade in the ring and
\* nothing in the Errors of its Result
C23_ErrorsLeftOut ==
    /\ rpc = "returned"
    /\ stIn.LastErrors = <<>>
    /\ \E k \in DOMAIN st.LastErrors : st.LastErrors[k].what = "fetch"
    /\ \E k \in DOMAIN st.LastErrors : st.LastErrors[k].what = "formula upgrade failed"
    /\ res.Errors = <<>>

\* the outdated items of the Result were passed to the upgrade operation of
\* their kind
ResultOutdatedActedOn ==
    \A i \in DOMAIN res.Outdated :
        res.Outdated[i].Item.Name \in Passed(UpgradeOp(res.Outdated[i].Item))

\* C24: when a run that is neither dry_run nor notify_only has returned, the
\* outdated set of its Result holds only items whose names were passed to an
\* upgrade operation in that run.
C24_ResultOutdatedNarrowed ==
    rpc = "returned" /\ ~rErr /\ ~opts.DryRun /\ ~opts.NotifyOnly => ResultOutdatedActedOn

\* the narrowing as the code has it: once the run has come to its upgrade step
C24_NarrowedWhenUpgrading == Upgraded => ResultOutdatedActedOn

\* a run returned after a successful brew update with an outdated item in its
\* Result and no upgrade operation called
C24_NotNarrowed ==
    /\ NormalRunReturned
    /\ res.Outdated # <<>>
    /\ ~Called("upgradeFormula") /\ ~Called("upgradeCask")

\* the row of the version table for the text v
RowOf(v) == CHOOSE r \in VersionTable : r.text = v

\* l is greater than i in the version ordering: major, then minor, then patch
Newer(l, i) ==
    \E k \in 1..3 : l[k] > i[k] /\ \A j \in 1..(k - 1) : l[j] = i[j]

\* isOutdated has been called on two versions that are neither empty nor the
\* sentinel
ComparedVersions ==
    /\ verdict # <<>>
    /\ RowOf(args.installed).is \in {"structured", "other"}
    /\ RowOf(args.latest).is \in {"structured", "other"}

\* C25: for installed and latest versions that are not empty and not the
\* "latest" sentinel, and a scheme not greater than the previous scheme:
\* if both are structured versions, isOutdated is true exactly if latest is
\* greater than installed in the version ordering; if either is not, exactly
\* if the two strings differ.
C25_OutdatedIffNewer ==
    ComparedVersions /\ args.scheme <= args.prevScheme =>
        LET i == RowOf(args.installed)
            l == RowOf(args.latest)
        IN IF i.is = "structured" /\ l.is = "structured"
           THEN verdict[1] = Newer(l.n, i.n)
           ELSE verdict[1] = (args.installed # args.latest)

\* installed 1.9 against latest 1.10 was found outdated
C25_Witness ==
    /\ ComparedVersions /\ args.scheme <= args.prevScheme
    /\ args.installed = <<"1", ".", "9">>
    /\ args.latest = <<"1", ".", "1", "0">>
    /\ verdict = <<TRUE>>

\* two different strings that are the same version were found not outdated
C25_WitnessSameVersion ==
    /\ ComparedVersions /\ args.scheme <= args.prevScheme
    /\ args.installed = <<"1", ".", "0">>
    /\ args.latest = <<"1", ".", "0", ".", "0">>
    /\ verdict = <<FALSE>>

\* C26: isOutdated returns false, whatever the scheme and the previous scheme,
\* when either version is empty or is "latest" in any case; and it returns a
\* boolean for every input.
C26_EmptyOrSentinelNeverOutdated ==
    verdict # <<>> =>
        /\ verdict[1] \in BOOLEAN
        /\ (\/ RowOf(args.installed).is \in {"empty", "sentinel"}
            \/ RowOf(args.latest).is \in {"empty", "sentinel"})
             => verdict[1] = FALSE

\* a sentinel against a version, with the scheme raised, was found not outdated
C26_Witness ==
    /\ verdict = <<FALSE>>
    /\ args.scheme > args.prevScheme
    /\ RowOf(args.installed).is = "sentinel"
    /\ RowOf(args.latest).is = "structured"

(***************************************************************************)
(* Claims about the version scheme in a run (SpecScheme).                  *)
(***************************************************************************)
\* the result r brought a version under a scheme above the one the State s
\* holds for its item, and that version is not the installed string (neither
\* being empty nor the sentinel)
SchemeRaised(s, r) ==
    LET key == WatchKey(r.item.Name, r.item.Type)
    IN /\ ~r.err /\ ~r.notModified
       /\ r.latest # <<>> /\ ~isLatest(r.latest)
       /\ key \in DOMAIN installed
       /\ installed[key] # <<>> /\ ~isLatest(installed[key])
       /\ r.scheme > Get(s.LastSchemes, key, 0)
       /\ r.latest # installed[key]

\* the result r made its item outdated, with the version it brought
Flagged(outd, r) ==
    \E i \in DOMAIN outd : outd[i].Item = r.item /\ outd[i].Latest = r.latest

\* C27: in the reconciliation of a run's results, a result that brings a
\* scheme greater than the scheme recorded for its item before the
\* reconciliation, and a version string different from the installed one,
\* makes the item outdated, whatever the two versions are.
C27_SchemeRaisedMeansOutdated ==
    [][ReconcileStep =>
        \A k \in DOMAIN results :
            SchemeRaised(st, results[k]) => Flagged(outdated', results[k])]_vars

\* the same, for a watchlist that holds no two items with the same key
C27_SchemeRaisedMeansOutdatedUniqueKeys ==
    [][ReconcileStep /\ UniqueKeys =>
        \A k \in DOMAIN results :
            SchemeRaised(st, results[k]) => Flagged(outdated', results[k])]_vars

\* an item installed at 1.1 was made outdated by the answer 1.0 under a scheme
\* above the recorded one
C27_LowerVersionFlagged ==
    /\ rpc = "forceUpdate"
    /\ UniqueKeys
    /\ \E k \in DOMAIN results :
          /\ ~results[k].err /\ ~results[k].notModified
          /\ results[k].latest = V10
          /\ results[k].scheme = 2
          /\ Get(stIn.LastSchemes, WatchKey(results[k].item.Name, results[k].item.Type), 0) = 1
          /\ Flagged(outdated, results[k])

(***************************************************************************)
(* Claims about the keys of the watchlist (SpecRuns).                      *)
(***************************************************************************)
\* the watchlist wl holds no two items with the same key
NoTwoWithOneKey(wl) ==
    \A i, j \in DOMAIN wl :
        WatchKey(wl[i].Name, wl[i].Type) = WatchKey(wl[j].Name, wl[j].Type) => i = j

\* C28: the watchlist holds no two items with the same key: not when a run
\* begins on the Config as loaded, and not when the run has returned it.
C28_WatchlistKeysUnique ==
    /\ rpc = "start" => NoTwoWithOneKey(cfg.Watchlist)
    /\ rpc = "returned" => NoTwoWithOneKey(cfg.Watchlist)

\* what holds of C28: the Config a run begins on has no two items with one key
C28_LoadedKeysUnique == NoTwoWithOneKey(cfgIn.Watchlist)

\* a run given a watchlist without two items of one key returned one with
\* two such items
C28_DuplicatesReturned ==
    /\ rpc = "returned" /\ ~rErr
    /\ NoTwoWithOneKey(cfgIn.Watchlist)
    /\ ~NoTwoWithOneKey(cfg.Watchlist)

(***************************************************************************)
(* Claims about the phases of a run (SpecStored, SpecRun).                 *)
(***************************************************************************)
\* the phases of action dispatch: refresh, outdated query, upgrade, notify
DispatchPhases == {"forceUpdate", "gate", "split", "upgrade"}

\* what the State s holds per item and per URL
PerItem(s) == <<s.NextCheckAt, s.LastVersions, s.LastSchemes, s.ETagCache>>

\* C29: every step of a run that changes the State is the reconciliation of the
\* results, after the fetch and before the dispatch of the actions.
C29_StateChangesOnlyInReconciliation ==
    [][st' # st => ReconcileStep]_vars

\* C29 as the code has it: the fetch does not change the State; the steps
\* before it (key migration, removal of missing items, cleanup) and the
\* reconciliation change it; the dispatch of the actions changes nothing of
\* what the State holds per item, only the error ring and the two timestamps.
C29_FetchAndDispatchLeaveItemsAlone ==
    [][/\ rpc = "fetch" => st' = st
       /\ rpc \in DispatchPhases => PerItem(st') = PerItem(st)
       /\ st' # st => rpc \in {"start", "reconcile"} \cup DispatchPhases]_vars

\* a run changed the State before its fetch (a bare-name entry copied), in its
\* reconciliation, and in its dispatch (a failed upgrade recorded)
C29_Witness ==
    /\ rpc = "returned"
    /\ results # <<>>
    /\ \E k \in DOMAIN stIn.LastVersions :
          k[1] = "" /\ WatchKey(k[2], "formula") \notin DOMAIN stIn.LastVersions
                    /\ WatchKey(k[2], "formula") \in DOMAIN st.LastVersions
    /\ st.LastErrors # <<>>
    /\ st.LastUpdateAt # NoTime

\* the outdated query and the upgrade operation of each kind, with the title
\* of the query's failure
QueryKinds ==
    {[query |-> "outdatedFormula", upgrade |-> "upgradeFormula",
      title |-> "brew outdated formula failed"],
     [query |-> "outdatedCask", upgrade |-> "upgradeCask",
      title |-> "brew outdated cask failed"]}

\* each failed outdated query of the run is in the error ring
QueryFailuresRecorded ==
    \A q \in QueryKinds :
        Cardinality(ErrorsOf(q.title)) = Cardinality(FailedCalls(q.query))

\* C30: when a run in which an outdated query failed has returned, the failure
\* is in the error ring, a failure notification was sent for it, no upgrade
\* operation was called with a name that the query did not confirm, and the
\* run returned its State without error.
C30_QueryFailureShortCircuits ==
    rpc = "returned" /\ FailedQueries # {} =>
        /\ QueryFailuresRecorded
        /\ \A q \in QueryKinds :
              /\ FailedCalls(q.query) # {} => FailuresNotified(q.title) # {}
              /\ Passed(q.upgrade) \subseteq Confirmed(q.query)
        /\ ~rErr
        /\ st.LastCheckAt # NoTime

\* what holds of C30: the failure is in the error ring and the run returns its
\* State, stamped, without error
C30_QueryFailureRecorded ==
    rpc = "returned" /\ FailedQueries # {} =>
        QueryFailuresRecorded /\ ~rErr /\ st.LastCheckAt # NoTime

\* the formula query failed, no failure notification was sent, and the names
\* asked about were upgraded all the same
C30_UpgradedUnconfirmed ==
    /\ rpc = "returned"
    /\ FailedCalls("outdatedFormula") # {}
    /\ \A k \in DOMAIN notes : notes[k].kind # "failure"
    /\ Passed("upgradeFormula") # {}
    /\ Confirmed("outdatedFormula") = {}

(***************************************************************************)
(* Claims about what a run stores (SpecStored, SpecScheme).                *)
(***************************************************************************)
\* the run returned because nothing was due
NothingDueReturned == rpc = "returned" /\ ~rErr /\ due = <<>> /\ brewLog # <<>>

\* what s has on record for item: looked up under the composite key, then
\* under the bare name; <<>> for what is absent
RecordOf(s, item) ==
    LET key == WatchKey(item.Name, item.Type)
        bare == WatchKey(item.Name, "")
        Look(m) == IF key \in DOMAIN m THEN <<m[key]>>
                   ELSE IF bare \in DOMAIN m THEN <<m[bare]>> ELSE <<>>
    IN [next |-> Look(s.NextCheckAt), version |-> Look(s.LastVersions),
        scheme |-> Look(s.LastSchemes)]

\* the run made no call but the listing of the installed packages
OnlyListed ==
    /\ results = <<>>
    /\ \A k \in DOMAIN brewLog : brewLog[k].op = "list"
    /\ notes = <<>>

\* the run stamped last_check_at and returned an empty Result
StampedAndEmpty ==
    /\ st.LastCheckAt = rNow
    /\ st.LastUpdateAt = stIn.LastUpdateAt
    /\ res.Checked = 0 /\ res.CheckedNames = <<>> /\ res.Outdated = <<>>

\* every entry that s0 holds under the key k is in s with the same value
EntriesKept(s0, s, k) ==
    /\ k \in DOMAIN s0.NextCheckAt => Get(s.NextCheckAt, k, NotATime) = s0.NextCheckAt[k]
    /\ k \in DOMAIN s0.LastVersions => Get(s.LastVersions, k, <<>>) = s0.LastVersions[k]
    /\ k \in DOMAIN s0.LastSchemes => Get(s.LastSchemes, k, 0 - 1) = s0.LastSchemes[k]

\* C31: when the due set of a run is empty, the run stamps last_check_at and
\* returns with Checked = 0 without a fetch, brew update, outdated query,
\* upgrade or notification, and every entry that the State held for a
\* surviving item, under its composite key or under its bare name, the
\* freshness-token cache and the error ring are as the run found them.
C31_NothingDueOnlyStamps ==
    NothingDueReturned =>
        /\ StampedAndEmpty
        /\ OnlyListed
        /\ st.ETagCache = stIn.ETagCache
        /\ st.LastErrors = stIn.LastErrors
        /\ \A i \in DOMAIN cfg.Watchlist :
              /\ EntriesKept(stIn, st, WatchKey(cfg.Watchlist[i].Name, cfg.Watchlist[i].Type))
              /\ EntriesKept(stIn, st, WatchKey(cfg.Watchlist[i].Name, ""))

\* C31 as the code has it: the entries under the composite key of a surviving
\* item are as the run found them, and so is what the State has on record for
\* it (composite key, else bare name); a bare-name entry may be gone.
C31_NothingDueKeepsRecords ==
    NothingDueReturned =>
        /\ StampedAndEmpty
        /\ OnlyListed
        /\ st.ETagCache = stIn.ETagCache
        /\ st.LastErrors = stIn.LastErrors
        /\ \A i \in DOMAIN cfg.Watchlist :
              /\ EntriesKept(stIn, st, WatchKey(cfg.Watchlist[i].Name, cfg.Watchlist[i].Type))
              /\ RecordOf(st, cfg.Watchlist[i]) = RecordOf(stIn, cfg.Watchlist[i])

\* nothing was due, and the bare-name entries of a surviving item went with
\* the removal of a missing item of the same name
C31_BareEntriesGone ==
    /\ NothingDueReturned
    /\ res.Removed # <<>>
    /\ \E i \in DOMAIN cfg.Watchlist :
          /\ WatchKey(cfg.Watchlist[i].Name, "") \in DOMAIN stIn.LastVersions
          /\ WatchKey(cfg.Watchlist[i].Name, "") \notin DOMAIN st.LastVersions

\* a run with two watched items, both with a next-check time in the future,
\* returned without a fetch
C31_Witness ==
    /\ NothingDueReturned
    /\ Len(cfg.Watchlist) = 2
    /\ cfg.Watchlist[1].Name # cfg.Watchlist[2].Name
    /\ stIn.LastCheckAt # rNow
    /\ stIn.ETagCache # EmptyMap

(***************************************************************************)
(* What a run records for an item whose fetch brought a new answer.        *)
(***************************************************************************)
\* a result that carries an answer of the API: no error, no 304
ModifiedSuccess(r) == ~r.err /\ ~r.notModified

\* no result after the k-th one is a fetched answer for the same package name
LastForName(k) ==
    \A j \in DOMAIN results :
        (j > k /\ results[j].item.Name = results[k].item.Name) => results[j].err

\* the map m holds nothing under the bare name of item
NoBareDuplicate(m, item) ==
    item.Type # "" => WatchKey(item.Name, "") \notin DOMAIN m

C32_BareVersionKept ==
    /\ RunReturned
    /\ \E k \in DOMAIN results :
          LET r == results[k]
          IN /\ ModifiedSuccess(r) /\ LastForName(k)
             /\ r.item.Type # "" /\ r.latest = <<>>
             /\ Has(st.LastVersions, WatchKey(r.item.Name, ""))

(***************************************************************************)
(* What a run does with an item whose fetch was answered 304.              *)
(***************************************************************************)
\* a result that carries a 304
NotModified(r) == ~r.err /\ r.notModified

\* the value of a looked-up entry, d where there is none
ValueOr(found, d) == IF found = <<>> THEN d ELSE found[1]

\* item is in the outdated list outd with the latest version latest
FlaggedWith(outd, item, latest) ==
    \E i \in DOMAIN outd : outd[i].Item = item /\ outd[i].Latest = latest

\* the 304 of r was reconciled from what s had on record: its item is
\* outdated exactly if the installed version is older than the recorded one
UsesRecorded(s, outd, r) ==
    LET key == WatchKey(r.item.Name, r.item.Type)
        rec == RecordOf(s, r.item)
        latest == ValueOr(rec.version, <<>>)
        scheme == ValueOr(rec.scheme, 0)
    IN FlaggedWith(outd, r.item, latest)
         <=> isOutdated(Get(installed, key, <<>>), latest, scheme,
                        Get(s.LastSchemes, key, 0))

\* the version, the scheme and the token s and t hold for item are the same
SameAnswerStored(s, t, item) ==
    /\ StoredFor(s, item).version = StoredFor(t, item).version
    /\ StoredFor(s, item).scheme = StoredFor(t, item).scheme
    /\ StoredFor(s, item).etag = StoredFor(t, item).etag

\* the next-check time s holds for item is the instant t plus the interval,
\* in whole seconds
Advanced(s, t, item) ==
    LET at == t + item.IntervalMin * Minute
    IN NextOf(s, item) = [valid |-> TRUE, t |-> at - (at % TicksPerSecond)]

\* C33: in the reconciliation of a run's results, for each due item whose
\* fetch returned not-modified the version and scheme the State has on record
\* (composite key first, bare name as fallback) are the latest of the outdated
\* determination, the stored version, scheme and freshness token stay as they
\* are, and the next-check time is advanced.
C33_NotModifiedUsesStored ==
    [][ReconcileStep =>
        \A k \in DOMAIN results :
            NotModified(results[k]) =>
                /\ UsesRecorded(st, outdated', results[k])
                /\ SameAnswerStored(st, st', results[k].item)
                /\ Advanced(st', rNow, results[k].item)]_vars

\* the same, for a watchlist that holds no two items with the same key
C33_NotModifiedUsesStoredUniqueKeys ==
    [][ReconcileStep /\ UniqueKeys =>
        \A k \in DOMAIN results :
            NotModified(results[k]) =>
                /\ UsesRecorded(st, outdated', results[k])
                /\ SameAnswerStored(st, st', results[k].item)
                /\ Advanced(st', rNow, results[k].item)]_vars

\* a 304 made an item outdated with the version recorded for it, and its
\* next-check time was advanced
C33_Witness ==
    /\ rpc = "forceUpdate"
    /\ UniqueKeys
    /\ \E k \in DOMAIN results :
          LET r == results[k]
              key == WatchKey(r.item.Name, r.item.Type)
          IN /\ NotModified(r)
             /\ Has(st.LastVersions, key)
             /\ FlaggedWith(outdated, r.item, st.LastVersions[key])
             /\ st.LastVersions[key] = RecordOf(stIn, r.item).version[1]
             /\ Advanced(st, rNow, r.item)

(***************************************************************************)
(* Termination of Acquire.  Each invocation is a process of its own that   *)
(* the operating system keeps running: a step it can take is taken.        *)
(***************************************************************************)
\* the steps of invocation p
CheckStep(p) ==
    \/ LoadConfigState(p)
    \/ AcquireOpen(p)
    \/ AcquireWrite(p)
    \/ AcquireIsStale(p)
    \/ AcquireRemove(p)
    \/ AcquireFailed(p)
    \/ HasRunningBrew(p)
    \/ CheckRun(p)
    \/ CheckSaveConfig(p)
    \/ CheckSaveState(p)
    \/ Release(p)

FairCheck == SpecCheck /\ \A p \in Procs : WF_vars(CheckStep(p))

\* where an invocation is while it is inside Acquire
AcquirePcs == {"open", "write", "isStale", "remove"}

\* C34: every call of Acquire returns, with a lock or with an error.
C34_AcquireTerminates ==
    \A p \in Procs : (pc[p] \in AcquirePcs) ~> (pc[p] \notin AcquirePcs)

\* the same, where the lock file found at the start can be removed
C34_AcquireTerminatesIfRemovable ==
    lockFile.rm => \A p \in Procs : (pc[p] \in AcquirePcs) ~> (pc[p] \notin AcquirePcs)

\* an invocation got the lock on a later pass of the loop, after the removal
\* of a stale file
C34_Witness ==
    \E p \in Procs :
        /\ pc[p] = "hasBrew"
        /\ attempts[p] >= 2
        /\ isst[p].set /\ isst[p].stale

\* an invocation is on a later pass of the loop over a stale file that cannot
\* be removed
C34_Spinning ==
    \E p \in Procs :
        /\ pc[p] = "open"
        /\ attempts[p] = MaxAttempts
        /\ lockFile.exists /\ ~lockFile.rm
        /\ isst[p].set /\ isst[p].stale

(***************************************************************************)
(* normalizeVersion applied twice, and the spellings of one version.       *)
(***************************************************************************)
\* normalizeVersion has been called on text and on its result
NormalizedTwice == Len(normal) >= 2

\* v with "_" or "," (c) in place of every "."
Respelled(v, c) == [i \in DOMAIN v |-> IF v[i] = "." THEN c ELSE v[i]]

\* the spellings of v normalize to the same value
SpellingsAgree(v) ==
    /\ normalizeVersion(Respelled(v, "_")) = normalizeVersion(v)
    /\ normalizeVersion(Respelled(v, ",")) = normalizeVersion(v)

\* C35 as stated: normalizing the result of a normalization gives the same
\* value, for every string; strings that differ by a leading "v" or by "_" or
\* "," in place of "." normalize to the same value, and "v1_2_3" and "1.2.3"
\* normalize to "1.2.3".
C35_NormalizeIdempotent ==
    NormalizedTwice =>
        /\ normal[2] = normal[1]
        /\ normalizeVersion(<<"v">> \o text) = normal[1]
        /\ SpellingsAgree(text)
        /\ text \in {V123, <<"v", "1", "_", "2", "_", "3">>} => normal[1] = V123

\* what is left of v after TrimSpace and the removal of one leading "v"
Stripped(v) ==
    LET t == TrimSpace(v)
    IN IF t # <<>> /\ Head(t) = "v" THEN Tail(t) ELSE t

\* C35 as the code has it: a second normalization changes nothing exactly if
\* what is left of the string, after the trim and the removal of one leading
\* "v", does not begin with a blank or another "v"; a leading "v" put before a
\* string that begins with neither makes no difference; "_" and "," in place
\* of "." never make a difference.
C35_NormalizeIdempotentOnceStripped ==
    NormalizedTwice =>
        /\ normal[2] = normal[1]
              <=> (Stripped(text) = <<>> \/ Head(Stripped(text)) \notin {" ", "v"})
        /\ (text = <<>> \/ Head(text) \notin {" ", "v"})
              => normalizeVersion(<<"v">> \o text) = normal[1]
        /\ SpellingsAgree(text)
        /\ text \in {V123, <<"v", "1", "_", "2", "_", "3">>} => normal[1] = V123

\* "v1_2_3" was normalized to "1.2.3", and again to "1.2.3"
C35_Witness ==
    /\ NormalizedTwice
    /\ text = <<"v", "1", "_", "2", "_", "3">>
    /\ normal[1] = V123 /\ normal[2] = V123

\* "vv1" was normalized to "v1", and that to "1"
C35_SecondCallStripsAgain ==
    /\ NormalizedTwice
    /\ text = <<"v", "v", "1">>
    /\ normal[1] = <<"v", "1">> /\ normal[2] = <<"1">>

(***************************************************************************)
(* config.json between a `check` and a `set` or `watch`.                   *)
(***************************************************************************)
\* C36: a Config change saved by `set` or `watch` is not lost to a `check`
\* that was between loading and saving Config: config.json holds every edit
\* saved so far.
C36_EditsNotLost == \A e \in 1..editsMade : e \in cfgEdits

\* a `check` that loaded Config before an edit was saved has saved its Config
\* after it, and config.json is without the edit
C36_EditLost ==
    \E p \in Procs :
        /\ cfgDisk = p
        /\ editsMade >= 1
        /\ 1 \notin cfgLoaded[p]
        /\ 1 \notin cfgEdits

(***************************************************************************)
(* Whose lock file Release removes.                                        *)
(***************************************************************************)
\* the step in which invocation p's Release removes the file at the lock path
ReleaseRemoves(p) ==
    /\ pc[p] = "release" /\ pc'[p] = "done"
    /\ lockFile.exists /\ ~lockFile'.exists

\* C37: Release removes a lock file only if it is the one the releasing
\* invocation created.
C37_ReleaseRemovesOwnLock ==
    [][\A p \in Procs : ReleaseRemoves(p) => lockFile.owner = p]_vars

\* an invocation whose run outlasted the timeout has released, and the
\* invocation that took its lock over as stale holds a lock whose file is gone
C37_TakenOverLockRemoved ==
    \E p, q \in Procs :
        /\ p # q
        /\ pc[p] = "done" /\ hist[p] # <<>> /\ hist[p][Len(hist[p])] = "release"
        /\ pc[q] \in HeldPcs
        /\ isst[q].set /\ isst[q].stale /\ isst[q].alive /\ isst[q].age > LockTimeout
        /\ isst[q].parts = FormatLock(p, 0)
        /\ ~lockFile.exists

(***************************************************************************)
(* Freshness tokens and the versions they belong to.                       *)
(***************************************************************************)
\* s holds a version for item wherever it holds a token for the item's URL
TokenHasVersion(s, item) ==
    Has(s.ETagCache, URLFor(item)) => RecordOf(s, item).version # <<>>

\* C38: after any sequence of runs and watchlist edits, the State that holds
\* a freshness token for the URL of a watched item holds a last-known version
\* for the item, under its composite key or its bare name.
C38_TokenMeansVersion ==
    (rpc = "returned" /\ ~rErr) =>
        \A i \in DOMAIN cfg.Watchlist : TokenHasVersion(st, cfg.Watchlist[i])

\* in a second run, the 304 of an item installed at 1.0 was reconciled
\* without a version to compare with, after the item had been taken off the
\* watchlist and put on it again
C38_NotModifiedWithoutVersion ==
    /\ runNo = 2
    /\ rpc = "forceUpdate"
    /\ \E k \in DOMAIN results :
          /\ NotModified(results[k])
          /\ RecordOf(st, results[k].item).version = <<>>
          /\ Get(installed, WatchKey(results[k].item.Name, results[k].item.Type), <<>>) = V10
          /\ outdated = <<>>

(***************************************************************************)
(* When a run sets last_update_at.                                         *)
(***************************************************************************)
UpgradeOps == {"upgradeFormula", "upgradeCask"}

\* the upgrade calls the run made, and those that returned without error
UpgradeCallsMade == {k \in DOMAIN brewLog : brewLog[k].op \in UpgradeOps}
UpgradeCallsPassed == {k \in UpgradeCallsMade : brewLog[k].ok}

\* the run has returned with a last_update_at other than the one it was given
UpdateStamped == rpc = "returned" /\ st.LastUpdateAt # stIn.LastUpdateAt

\* C39: a run changes last_update_at only if it invoked an upgrade operation
\* that succeeded.
C39_StampedOnlyOnSuccess == UpdateStamped => UpgradeCallsPassed # {}

\* a run changes last_update_at only if it invoked an upgrade operation
C39_StampedOnlyAfterUpgradeCall == UpdateStamped => UpgradeCallsMade # {}

\* a run whose formula upgrade succeeded stamped last_update_at
C39_Witness ==
    /\ UpdateStamped
    /\ \E k \in UpgradeCallsPassed : brewLog[k].op = "upgradeFormula"

\* a run whose upgrades, one of each kind, both failed stamped last_update_at
C39_StampedAfterFailures ==
    /\ UpdateStamped
    /\ Cardinality(UpgradeCallsMade) = 2
    /\ UpgradeCallsPassed = {}
    /\ ErrorsOf("formula upgrade failed") # {} /\ ErrorsOf("cask upgrade failed") # {}

(***************************************************************************)
(* An installed version that is the latest one.                            *)
(***************************************************************************)
\* the State as the loop over the results has it when it comes to the k-th
\* result, s being the State before the loop
StateBefore(s, k) ==
    reconcileLoop(installed, rNow, [st |-> s, outdated |-> <<>>],
                  SubSeq(results, 1, k - 1)).st

\* the latest version the run uses for the k-th result: the one fetched, or
\* for a 304 the one on record when the loop comes to it
LatestUsed(s, k) ==
    IF results[k].notModified
    THEN ValueOr(RecordOf(StateBefore(s, k), results[k].item).version, <<>>)
    ELSE results[k].latest

\* the installed version string of the item of the k-th result is the latest
\* version used
InstalledIsLatest(s, k) ==
    LET key == WatchKey(results[k].item.Name, results[k].item.Type)
    IN /\ ~results[k].err
       /\ key \in DOMAIN installed
       /\ installed[key] = LatestUsed(s, k)

\* every result fetched for the key of the k-th one brought the installed
\* version
AllInstalledIsLatest(s, k) ==
    /\ InstalledIsLatest(s, k)
    /\ \A j \in DOMAIN results :
          WatchKey(results[j].item.Name, results[j].item.Type)
              = WatchKey(results[k].item.Name, results[k].item.Type)
            => (results[j].err \/ InstalledIsLatest(s, j))

\* the names passed to an upgrade operation are names of outdated items of
\* the operation's kind
UpgradedWereOutdated ==
    \A k \in DOMAIN brewLog :
        brewLog[k].op \in UpgradeOps =>
            \A n \in Range(brewLog[k].names) :
                \E i \in DOMAIN outdated :
                    /\ outdated[i].Item.Name = n
                    /\ UpgradeOp(outdated[i].Item) = brewLog[k].op

\* C40: an item whose installed version string equals the latest version used
\* for it in a run is not put in that run's outdated set, whatever the scheme
\* and the previous scheme (isOutdated(v, v, scheme, prevScheme) is false),
\* and only outdated items are passed to an upgrade operation.
C40_EqualVersionsNeverOutdated ==
    /\ [][ReconcileStep =>
            \A k \in DOMAIN results :
                AllInstalledIsLatest(st, k) =>
                    \A i \in DOMAIN outdated' : outdated'[i].Item # results[k].item]_vars
    /\ []UpgradedWereOutdated

\* isOutdated called on one version string twice returns false, whatever the
\* schemes
C40_SameStringNotOutdated ==
    (verdict # <<>> /\ args.installed = args.latest) => verdict[1] = FALSE

\* isOutdated was called on 1.x and 1.x with the scheme raised
C40_SameStringRaisedScheme ==
    /\ verdict = <<FALSE>>
    /\ args.installed = <<"1", ".", "x">> /\ args.latest = args.installed
    /\ args.scheme > args.prevScheme

\* 1.1 was fetched under a raised scheme for an item installed at 1.1, and the
\* run returned without the item outdated, after the upgrade of another one
C40_Witness ==
    /\ rpc = "returned" /\ ~rErr
    /\ Called("upgradeCask")
    /\ \E k \in DOMAIN results :
          LET r == results[k]
              key == WatchKey(r.item.Name, r.item.Type)
          IN /\ ModifiedSuccess(r)
             /\ r.latest = V11 /\ Get(installed, key, <<>>) = V11
             /\ r.scheme > Get(stIn.LastSchemes, key, 0)
             /\ \A i \in DOMAIN outdated : outdated[i].Item # r.item
             /\ r.item.Name \notin Passed(UpgradeOp(r.item))
=============================================================================
